---------------------------- MODULE Spec2Model ----------------------------
(***************************************************************************)
(* A model of the smart-contract obfuscator: the control-flow flattener   *)
(* (basic-block extraction and dispatcher synthesis), the chaotic-map     *)
(* helper of the opaque predicates, the byte-range edit engine, the AST   *)
(* acquisition of the AST-driven passes and the run_demo pipeline.        *)
(*                                                                         *)
(* Each component has its own specification over the shared variables;    *)
(* a component's actions leave the other components' variables unchanged. *)
(***************************************************************************)
EXTENDS Integers, Sequences, FiniteSets, TLC

VARIABLES
    \* ---- control-flow flattener (flattening_obfuscator.py) ----
    statements,     \* the function body's top-level statement list (AST)
    arg,            \* the value of the function's parameter `a`
    fpc,            \* "source" | "untouched" | "flattened" | "loop" | "returned" | "exited"
    blocks,         \* the block list returned by _create_basic_blocks
    hoisted_vars,   \* the hoisted declarations returned by _create_basic_blocks
    presentation,   \* the shuffled presentation order of the dispatch arms
    state,          \* the dispatcher's `uint256 state`
    env,            \* the values of the function's variables while the dispatcher runs
    trace,          \* ids of the statements / conditions the dispatcher has executed
    retval,         \* the value returned by the dispatcher (when fpc = "returned")
    outcomes,       \* outcomes of the opaque conditions evaluated so far
    \* ---- chaotic map of the opaque predicates (chaotic_map_generator.py) ----
    variant,        \* ChaoticMapGenerator.variant
    cpc,            \* "generated" | "hashed" | "evaluated"
    hash,           \* uint(keccak256(abi.encodePacked(val))) of the helper's call
    helper_value,   \* the value the helper function returns
    predicate,      \* the value of the injected predicate condition
    \* ---- byte-range edits (boolean_obfuscator.py, split_booleans_file) ----
    src_bytes,      \* the bytes of the input file
    replacements,   \* the proposed byte-range replacements, in AST order
    non_overlap,    \* the replacements kept by the overlap sweep
    pending,        \* the kept replacements not applied yet, in application order
    new_bytes,      \* the buffer being rewritten
    epc,            \* "collect" | "finalized" | "applying" | "done", "ls_..." likewise
    \* ---- AST acquisition of the AST-driven passes ----
    call,           \* the last pass call: its pass, its inputs and its result
    \* ---- run_demo (demo.py) ----
    dpc,            \* "start", the pass to run next, "write", "done", "write_failed",
                    \* "aborted", "refused"
    static_only,    \* BIAN_STATIC_ONLY
    current_source, \* the version of the source text held by current_source
    current_ast_path, \* k for test/test_ast_step<k>.json
    step_counter,   \* next_step's counter
    ast_source,     \* the source version the file at current_ast_path was compiled from
    output_file,    \* the source version the output file holds
    last_failed,    \* the last pass that raised, and the state it was entered with
    \* ---- the passes over a whole source text, one record each ----
    flattening,     \* flatten_control_flow: source_bytes, functions_to_flatten,
                    \* modified_source, count
    comment_remover, \* CommentRemover: src, and the results of remove_comments
    integer_expr,   \* _gen_expr_for: the literal, the expression, its value
    boolean_expr,   \* _make_true_variant / _make_false_variant: the expression, its value
    renamer,        \* VariableRenamer: the identifiers and their new names
    opaque,         \* insert_opaque_predicates: the source, its edits, the result
    pipelines,      \* two run_demo instances and the step files they share
    \* ---- further passes over the AST, one record each ----
    scalar_splitter, \* scalar grouping: the state variables, the selected ones
    local_state,    \* convert_locals_to_state: the source, the promoted locals, the result
    preprocessing   \* inline_modifiers: the functions, their modifiers, the result

flatVars == <<statements, arg, fpc, blocks, hoisted_vars, presentation,
              state, env, trace, retval, outcomes>>
cpmVars == <<variant, cpc, hash, helper_value, predicate>>
editVars == <<src_bytes, replacements, non_overlap, pending, new_bytes, epc>>
astVars == <<call>>
demoVars == <<dpc, static_only, current_source, current_ast_path, step_counter,
              ast_source, output_file, last_failed>>

textPassVars == <<flattening, comment_remover, integer_expr, boolean_expr, renamer,
                  opaque, pipelines>>
astPassVars == <<scalar_splitter, local_state, preprocessing>>
passVars == <<textPassVars, astPassVars>>

vars == <<flatVars, cpmVars, editVars, astVars, demoVars, passVars>>

-----------------------------------------------------------------------------
(***************************************************************************)
(* Bounds                                                                  *)
(***************************************************************************)
MaxStmts == 3          \* top-level statements of a generated function body
MaxArg == 10           \* values of the parameter `a` in the scenario
HashBits == 10         \* width of the hash and of the helper's integers (256 in the code)
MaxFunctions == 2      \* functions of a source handed to flatten_control_flow
MaxTextLen == 6        \* characters of a source text handed to remove_comments
IntBits == 8           \* width of the integers a disguised literal is evaluated in
BufLen == 4            \* bytes of the source file the edits are applied to
MaxEdits == 3          \* boolean-literal candidates the AST walk yields

-----------------------------------------------------------------------------
(***************************************************************************)
(* Expressions and statements of the function body (the AST nodes the     *)
(* flattener reads).  An expression is [op, a, b]; a statement carries    *)
(* the fields of every node type so that statements can be compared.      *)
(***************************************************************************)
NoExpr == [op |-> "none", a |-> "", b |-> 0]
Lit(n) == [op |-> "lit", a |-> "", b |-> n]
VarRef(v) == [op |-> "var", a |-> v, b |-> 0]
AddLit(v, n) == [op |-> "addlit", a |-> v, b |-> n]
GtLit(v, n) == [op |-> "gtlit", a |-> v, b |-> n]
Opaque(k) == [op |-> "opaque", a |-> "", b |-> k]
DefaultText(t) == [op |-> "default", a |-> t, b |-> 0]

VarNames == {"a", "x"}

Stmt(nt, id, name, ty, e, c, tb, fb, hf) ==
    [nodeType |-> nt, id |-> id, name |-> name, typeName |-> ty, expr |-> e,
     condition |-> c, trueBody |-> tb, falseBody |-> fb, hasFalse |-> hf]

ExprStmt(id) == Stmt("ExpressionStatement", id, "", "", Opaque(id), NoExpr, <<>>, <<>>, FALSE)
Assign(id, name, e) == Stmt("ExpressionStatement", id, name, "", e, NoExpr, <<>>, <<>>, FALSE)
ReturnStmt(id, e) == Stmt("Return", id, "", "", e, NoExpr, <<>>, <<>>, FALSE)
DeclStmt(id, ty, name, e) ==
    Stmt("VariableDeclarationStatement", id, name, ty, e, NoExpr, <<>>, <<>>, FALSE)
IfStmt(id, c, tb) == Stmt("IfStatement", id, "", "", NoExpr, c, tb, <<>>, FALSE)
IfElseStmt(id, c, tb, fb) == Stmt("IfStatement", id, "", "", NoExpr, c, tb, fb, TRUE)

\* spec.md section 8: function f(uint a) public pure returns (uint)
\*   { uint x = a + 1; if (x > 5) { return x; } else { return 0; } }
ScenarioF ==
    << DeclStmt(10, "uint", "x", AddLit("a", 1)),
       IfElseStmt(20, GtLit("x", 5), <<ReturnStmt(21, VarRef("x"))>>,
                                     <<ReturnStmt(26, Lit(0))>>) >>

\* The statement kinds a generated body draws from, for the statement at
\* position i: ids are i*10 (+1 in the true body, +6 in the false body).
StmtPool(i) ==
    LET id == i * 10
        e == <<ExprStmt(id + 1)>>
        r == <<ReturnStmt(id + 1, Opaque(id + 1))>>
        fe == <<ExprStmt(id + 6)>>
        fr == <<ReturnStmt(id + 6, Opaque(id + 6))>>
    IN  { ExprStmt(id),
          ReturnStmt(id, Opaque(id)),
          DeclStmt(id, "uint", "x", Opaque(id)),
          DeclStmt(id, "bool", "x", NoExpr),
          IfStmt(id, Opaque(id), e),
          IfStmt(id, Opaque(id), <<>>),
          IfElseStmt(id, Opaque(id), r, fe),
          IfElseStmt(id, Opaque(id), r, fr) }

RECURSIVE BodiesOfLen(_)
BodiesOfLen(n) ==
    IF n = 0 THEN { <<>> }
    ELSE { Append(s, x) : s \in BodiesOfLen(n - 1), x \in StmtPool(n) }

Bodies == UNION { BodiesOfLen(n) : n \in 0..MaxStmts }

-----------------------------------------------------------------------------
(***************************************************************************)
(* FlatteningObfuscator._create_basic_blocks                              *)
(*                                                                         *)
(* A block is [id, content, next]; content is the list of text lines of   *)
(* the block, each one a statement, the synthesized branch                *)
(* `if (cond) { state = t; } else { state = f; }`, or a comment.          *)
(***************************************************************************)
NoNext == -1      \* 'next': None

NoStmt == Stmt("", 0, "", "", NoExpr, NoExpr, <<>>, <<>>, FALSE)
StmtLine(s) == [line |-> "stmt", stmt |-> s, cond |-> NoExpr, t |-> 0, f |-> 0]
BranchLine(id, c, t, f) ==
    [line |-> "branch", stmt |-> [NoStmt EXCEPT !.id = id], cond |-> c, t |-> t, f |-> f]
CommentLine == [line |-> "comment", stmt |-> NoStmt, cond |-> NoExpr, t |-> 0, f |-> 0]

Block(id, content, next) == [id |-> id, content |-> content, next |-> next]

\* type_str.strip().startswith(prefix), over the type texts of the model
StartsWith(t, prefix) ==
    t \in CASE prefix = "bool" -> {"bool"}
           [] prefix = "string" -> {"string"}
           [] prefix = "bytes" -> {"bytes", "bytes32"}
           [] prefix = "address" -> {"address", "address payable"}
           [] OTHER -> {}

\* mutant: every type is reset to 0
GetDefaultValueForType_Zero(t) == "0"

\* _get_default_value_for_type
GetDefaultValueForType(t) ==
    CASE StartsWith(t, "bool") -> "false"
      [] StartsWith(t, "string") -> "\"\""
      [] StartsWith(t, "bytes") -> "\"\""
      [] StartsWith(t, "address") -> "address(0)"
      [] OTHER -> "0"

\* the text of an if body with its braces stripped; an empty body becomes a comment
BodyLines(body) ==
    IF body = <<>> THEN <<CommentLine>>
    ELSE [i \in 1..Len(body) |-> StmtLine(body[i])]

\* mutant: the id after an if / else is the id of its false block
NextBlockIdAfterIf_Short(current_id, has_false) == current_id + 2

NextBlockIdAfterIf(current_id, has_false) ==
    IF has_false THEN current_id + 3 ELSE current_id + 2

\* mutant: the true branch is sent to the block after the true block
TrueBlockId_Off(current_id) == current_id + 2

TrueBlockId(current_id) == current_id + 1

\* mutant: the else branch is sent to the true block
FalseBlockId_True(current_id, has_false) ==
    IF has_false THEN current_id + 1 ELSE NextBlockIdAfterIf(current_id, has_false)

FalseBlockId(current_id, has_false) ==
    IF has_false THEN current_id + 2 ELSE NextBlockIdAfterIf(current_id, has_false)

\* lines 182-189: end the current linear block before an if
EndLinearBlock(acc) ==
    IF acc.current_block_content # <<>>
    THEN [acc EXCEPT !.blocks = Append(@, Block(acc.current_id, acc.current_block_content,
                                                acc.current_id + 1)),
                     !.current_id = @ + 1,
                     !.current_block_content = <<>>]
    ELSE acc

\* lines 180-245: an IfStatement becomes a condition block, a true block and
\* (with an else) a false block
StepIf(stmt, acc0) ==
    LET acc == EndLinearBlock(acc0)
        cid == acc.current_id
        next_block_id_after_if == NextBlockIdAfterIf(cid, stmt.hasFalse)
        true_block_id == TrueBlockId(cid)
        false_block_id == FalseBlockId(cid, stmt.hasFalse)
        condBlock == Block(cid, <<BranchLine(stmt.id, stmt.condition,
                                             true_block_id, false_block_id)>>, NoNext)
        trueBlock == Block(true_block_id, BodyLines(stmt.trueBody), next_block_id_after_if)
        falseBlock == Block(false_block_id, BodyLines(stmt.falseBody), next_block_id_after_if)
    IN  [acc EXCEPT !.blocks = IF stmt.hasFalse
                               THEN @ \o <<condBlock, trueBlock, falseBlock>>
                               ELSE @ \o <<condBlock, trueBlock>>,
                    !.current_id = next_block_id_after_if]

\* lines 247-296: a local declaration is hoisted; an assignment of its
\* initializer, or of its type's default value, stays in place
StepDecl(stmt, acc) ==
    LET hoisted == Append(acc.hoisted_vars, [typeName |-> stmt.typeName, name |-> stmt.name])
        inPlace == IF stmt.expr.op # "none"
                   THEN Assign(stmt.id, stmt.name, stmt.expr)
                   ELSE Assign(stmt.id, stmt.name,
                               DefaultText(GetDefaultValueForType(stmt.typeName)))
    IN  [acc EXCEPT !.hoisted_vars = hoisted,
                    !.current_block_content = Append(@, StmtLine(inPlace))]

\* lines 299-309: any other statement is a line of the current linear block
StepLinear(stmt, acc) ==
    [acc EXCEPT !.current_block_content = Append(@, StmtLine(stmt))]

StepStmt(stmt, acc) ==
    CASE stmt.nodeType = "IfStatement" -> StepIf(stmt, acc)
      [] stmt.nodeType = "VariableDeclarationStatement" -> StepDecl(stmt, acc)
      [] OTHER -> StepLinear(stmt, acc)

\* line 316: last_text.startswith('return ') (or 'revert(' / 'revert ')
IsTerminalLine(l) ==
    /\ l.line = "stmt"
    /\ \/ l.stmt.nodeType = "Return" /\ l.stmt.expr.op # "none"
       \/ l.stmt.nodeType = "RevertStatement"

\* lines 311-325: flush the remaining linear block
FlushRemaining(acc) ==
    IF acc.current_block_content # <<>>
    THEN LET last_text == acc.current_block_content[Len(acc.current_block_content)]
             is_terminal == IsTerminalLine(last_text)
         IN  [acc EXCEPT !.blocks = Append(@, Block(acc.current_id, acc.current_block_content,
                                                    IF is_terminal THEN NoNext ELSE 0))]
    ELSE acc

RECURSIVE BlocksLoop(_, _, _)
BlocksLoop(stmts, i, acc) ==
    IF i > Len(stmts) THEN acc
    ELSE BlocksLoop(stmts, i + 1, StepStmt(stmts[i], acc))

CreateBasicBlocks(stmts) ==
    FlushRemaining(BlocksLoop(stmts, 1,
        [blocks |-> <<>>, hoisted_vars |-> <<>>, current_id |-> 1,
         current_block_content |-> <<>>]))

-----------------------------------------------------------------------------
(***************************************************************************)
(* FlatteningObfuscator._generate_dispatcher and the code it emits        *)
(***************************************************************************)
\* random.shuffle(presentation_blocks): every order of up to four
\* blocks; of a longer list the list itself, its reverse and its halves swapped.
Rotation(n, k) == [i \in 1..n |-> ((i - 1 + k) % n) + 1]
Reversed(p) == [i \in 1..Len(p) |-> p[Len(p) + 1 - i]]

Shuffles(n) ==
    IF n <= 4
    THEN { p \in [1..n -> 1..n] : \A i, j \in 1..n : p[i] = p[j] => i = j }
    ELSE { Rotation(n, 0), Reversed(Rotation(n, 0)), Rotation(n, n \div 2) }

\* lines 356-377: the arms `if / else if (state == bid) { content; state = next; }`
\* in presentation order
DispatchArms(bs, order) == [i \in 1..Len(order) |-> bs[order[i]]]

\* the arm an iteration of `while (state != 0)` runs: the first arm of the
\* if / else-if chain whose test `state == bid` holds (0: none)
MatchingArms(arms, st) == { i \in 1..Len(arms) : arms[i].id = st }

FirstMatchingArm(arms, st) ==
    IF MatchingArms(arms, st) = {} THEN 0
    ELSE CHOOSE i \in MatchingArms(arms, st) : \A j \in MatchingArms(arms, st) : i <= j

-----------------------------------------------------------------------------
(***************************************************************************)
(* Evaluation of expressions and statements (the meaning of the emitted   *)
(* text and of the original body).  A machine state is                    *)
(* [env, trace, returned, retval, state, outcomes, blocked].              *)
(***************************************************************************)
Eval(e, en) ==
    CASE e.op = "lit" -> e.b
      [] e.op = "var" -> en[e.a]
      [] e.op = "addlit" -> en[e.a] + e.b
      [] OTHER -> 0        \* opaque values and every type's zero value

\* an opaque condition takes the outcome recorded for it, else the outcome `choice`
CondValue(id, c, m, choice) ==
    CASE c.op = "gtlit" -> m.env[c.a] > c.b
      [] id \in DOMAIN m.outcomes -> m.outcomes[id]
      [] OTHER -> choice

RecordOutcome(id, c, m, choice) ==
    IF c.op = "opaque" /\ id \notin DOMAIN m.outcomes
    THEN (id :> choice) @@ m.outcomes
    ELSE m.outcomes

\* a simple (non-branching) statement
ExecSimple(s, m) ==
    CASE s.nodeType = "Return" ->
            [m EXCEPT !.trace = Append(@, s.id), !.returned = TRUE,
                      !.retval = Eval(s.expr, m.env)]
      [] s.nodeType \in {"ExpressionStatement", "VariableDeclarationStatement"} ->
            [m EXCEPT !.trace = Append(@, s.id),
                      !.env = IF s.name = "" THEN @
                              ELSE [@ EXCEPT ![s.name] = Eval(s.expr, m.env)]]
      [] OTHER -> m

ExecLine(l, m, choice) ==
    CASE l.line = "stmt" -> ExecSimple(l.stmt, m)
      [] l.line = "branch" ->
            [m EXCEPT !.trace = Append(@, l.stmt.id),
                      !.outcomes = RecordOutcome(l.stmt.id, l.cond, m, choice),
                      !.state = IF CondValue(l.stmt.id, l.cond, m, choice)
                                THEN l.t ELSE l.f]
      [] OTHER -> m

RECURSIVE ExecLines(_, _, _, _)
ExecLines(lines, i, m, choice) ==
    IF i > Len(lines) \/ m.returned THEN m
    ELSE ExecLines(lines, i + 1, ExecLine(lines[i], m, choice), choice)

\* one arm: its content, then `state = next;` when the block has a successor
ExecArm(b, m, choice) ==
    LET after == ExecLines(b.content, 1, m, choice)
    IN  IF ~after.returned /\ b.next # NoNext
        THEN [after EXCEPT !.state = b.next]
        ELSE after

\* The original body under the recorded outcomes; it stops (blocked) at an
\* opaque condition that has no recorded outcome yet.
RECURSIVE RunBody(_, _, _)
RunBody(stmts, i, m) ==
    IF i > Len(stmts) \/ m.returned \/ m.blocked THEN m
    ELSE LET s == stmts[i]
         IN  IF s.nodeType = "IfStatement"
             THEN IF s.condition.op = "opaque" /\ s.id \notin DOMAIN m.outcomes
                  THEN [m EXCEPT !.blocked = TRUE]
                  ELSE LET m1 == [m EXCEPT !.trace = Append(@, s.id)]
                           taken == IF CondValue(s.id, s.condition, m, TRUE)
                                    THEN s.trueBody ELSE s.falseBody
                       IN  RunBody(stmts, i + 1, RunBody(taken, 1, m1))
             ELSE RunBody(stmts, i + 1, ExecSimple(s, m))

Machine(a, oc) ==
    [env |-> [v \in VarNames |-> IF v = "a" THEN a ELSE 0], trace |-> <<>>,
     returned |-> FALSE, retval |-> 0, state |-> 1, outcomes |-> oc, blocked |-> FALSE]

Original == RunBody(statements, 1, Machine(arg, outcomes))

-----------------------------------------------------------------------------
(***************************************************************************)
(* The state of a component that a specification does not exercise        *)
(***************************************************************************)
CpmIdle ==
    variant = "positive" /\ cpc = "generated" /\ hash = 0 /\ helper_value = 0
                         /\ predicate = FALSE

EditIdle ==
    /\ src_bytes = <<>> /\ replacements = <<>> /\ non_overlap = <<>>
    /\ pending = <<>> /\ new_bytes = <<>> /\ epc = "collect"

\* no pass has been called yet
NoCall ==
    [pass |-> "none", source_code |-> <<>>, solcx |-> TRUE, compile |-> "ast",
     path |-> "ok", rest |-> "unchanged",
     raised |-> FALSE, result |-> <<>>, count |-> 0]

AstIdle == call = NoCall

\* what a file holds that this run has not written
Missing == -1
PreviousRun == -2

\* no pass has raised yet
NoFailure == [pass |-> "none", source |-> 0, ast_path |-> 0]

\* flatten_control_flow has not been called
FlatteningIdle ==
    flattening = [pc |-> "idle", functions |-> <<>>, source_bytes |-> <<>>,
                  functions_to_flatten |-> <<>>, modified_source |-> <<>>,
                  count |-> 0]

\* no CommentRemover has been made
CommentRemoverIdle ==
    comment_remover = [pc |-> "idle", src |-> <<>>, result |-> <<>>, again |-> <<>>]

\* a pass that has not been called
NotCalled == [pc |-> "idle"]
IntegerExprIdle == integer_expr = NotCalled
BooleanExprIdle == boolean_expr = NotCalled
RenamerIdle == renamer = NotCalled
OpaqueIdle == opaque = NotCalled
PipelinesIdle == pipelines = NotCalled

ScalarSplitterIdle == scalar_splitter = NotCalled
LocalStateIdle == local_state = NotCalled
PreprocessingIdle == preprocessing = NotCalled

TextPassIdle ==
    /\ FlatteningIdle /\ CommentRemoverIdle /\ IntegerExprIdle /\ BooleanExprIdle
    /\ RenamerIdle /\ OpaqueIdle /\ PipelinesIdle
AstPassIdle == ScalarSplitterIdle /\ LocalStateIdle /\ PreprocessingIdle
PassIdle == TextPassIdle /\ AstPassIdle

\* what each pass leaves alone among the other passes' records
OtherThanScalarSplitter == <<textPassVars, local_state, preprocessing>>
ScalarSplitterAlone == TextPassIdle /\ LocalStateIdle /\ PreprocessingIdle
OtherThanLocalState == <<textPassVars, scalar_splitter, preprocessing>>
LocalStateAlone == TextPassIdle /\ ScalarSplitterIdle /\ PreprocessingIdle
OtherThanPreprocessing == <<textPassVars, scalar_splitter, local_state>>
PreprocessingAlone == TextPassIdle /\ ScalarSplitterIdle /\ LocalStateIdle
OtherThanFlattening ==
    <<comment_remover, integer_expr, boolean_expr, renamer, opaque, pipelines,
      astPassVars>>
FlatteningAlone ==
    /\ CommentRemoverIdle /\ IntegerExprIdle /\ BooleanExprIdle
    /\ RenamerIdle /\ OpaqueIdle /\ PipelinesIdle
    /\ AstPassIdle
OtherThanCommentRemover ==
    <<flattening, integer_expr, boolean_expr, renamer, opaque, pipelines,
      astPassVars>>
CommentRemoverAlone ==
    /\ FlatteningIdle /\ IntegerExprIdle /\ BooleanExprIdle
    /\ RenamerIdle /\ OpaqueIdle /\ PipelinesIdle
    /\ AstPassIdle
OtherThanIntegerExpr ==
    <<flattening, comment_remover, boolean_expr, renamer, opaque, pipelines,
      astPassVars>>
IntegerExprAlone ==
    /\ FlatteningIdle /\ CommentRemoverIdle /\ BooleanExprIdle
    /\ RenamerIdle /\ OpaqueIdle /\ PipelinesIdle
    /\ AstPassIdle
OtherThanBooleanExpr ==
    <<flattening, comment_remover, integer_expr, renamer, opaque, pipelines,
      astPassVars>>
BooleanExprAlone ==
    /\ FlatteningIdle /\ CommentRemoverIdle /\ IntegerExprIdle
    /\ RenamerIdle /\ OpaqueIdle /\ PipelinesIdle
    /\ AstPassIdle
OtherThanRenamer ==
    <<flattening, comment_remover, integer_expr, boolean_expr, opaque, pipelines,
      astPassVars>>
RenamerAlone ==
    /\ FlatteningIdle /\ CommentRemoverIdle /\ IntegerExprIdle
    /\ BooleanExprIdle /\ OpaqueIdle /\ PipelinesIdle
    /\ AstPassIdle
OtherThanOpaque ==
    <<flattening, comment_remover, integer_expr, boolean_expr, renamer, pipelines,
      astPassVars>>
OpaqueAlone ==
    /\ FlatteningIdle /\ CommentRemoverIdle /\ IntegerExprIdle
    /\ BooleanExprIdle /\ RenamerIdle /\ PipelinesIdle
    /\ AstPassIdle
OtherThanPipelines ==
    <<flattening, comment_remover, integer_expr, boolean_expr, renamer, opaque,
      astPassVars>>
PipelinesAlone ==
    /\ FlatteningIdle /\ CommentRemoverIdle /\ IntegerExprIdle
    /\ BooleanExprIdle /\ RenamerIdle /\ OpaqueIdle
    /\ AstPassIdle

DemoIdle ==
    /\ dpc = "start" /\ static_only = FALSE /\ current_source = 0
    /\ current_ast_path = 0 /\ step_counter = 0 /\ ast_source = Missing
    /\ output_file = Missing /\ last_failed = NoFailure

-----------------------------------------------------------------------------
(***************************************************************************)
(* The flattener's actions                                                 *)
(***************************************************************************)
\* _has_branching
BranchingTypes == {"IfStatement", "WhileStatement", "ForStatement", "DoWhileStatement"}
RECURSIVE HasBranching(_)
HasBranching(stmts) ==
    \E i \in 1..Len(stmts) :
        \/ stmts[i].nodeType \in BranchingTypes
        \/ HasBranching(stmts[i].trueBody)
        \/ HasBranching(stmts[i].falseBody)

\* mutant: only an empty body is skipped
Skipped_EmptyOnly(stmts) == stmts = <<>>

\* lines 83-90: the skip policy
Skipped(stmts) == stmts = <<>> \/ (Len(stmts) < 2 /\ ~HasBranching(stmts))

\* flatten_control_flow on one function: blocks, then the dispatcher
FlattenControlFlow ==
    /\ fpc = "source"
    /\ IF Skipped(statements)
       THEN /\ fpc' = "untouched"
            /\ UNCHANGED <<blocks, hoisted_vars, presentation>>
       ELSE LET r == CreateBasicBlocks(statements)
            IN  /\ blocks' = r.blocks
                /\ hoisted_vars' = r.hoisted_vars
                /\ presentation' \in Shuffles(Len(r.blocks))
                /\ fpc' = "flattened"
    /\ UNCHANGED <<statements, arg, state, env, trace, retval, outcomes>>
    /\ UNCHANGED <<cpmVars, editVars, astVars, demoVars, passVars>>

\* the emitted body is entered: hoisted locals hold zero, `uint256 state = 1;`
Call ==
    /\ fpc = "flattened"
    /\ fpc' = "loop"
    /\ state' = 1
    /\ env' = [v \in VarNames |-> IF v = "a" THEN arg ELSE 0]
    /\ UNCHANGED <<statements, arg, blocks, hoisted_vars, presentation, trace,
                   retval, outcomes>>
    /\ UNCHANGED <<cpmVars, editVars, astVars, demoVars, passVars>>

\* one evaluation of `while (state != 0)` and of its body
LoopIteration ==
    /\ fpc = "loop"
    /\ IF state = 0
       THEN /\ fpc' = "exited"
            /\ UNCHANGED <<state, env, trace, retval, outcomes>>
       ELSE LET arms == DispatchArms(blocks, presentation)
                k == FirstMatchingArm(arms, state)
                m == [Machine(arg, outcomes) EXCEPT !.env = env, !.trace = trace,
                                                    !.state = state]
            IN  IF k = 0
                THEN UNCHANGED <<fpc, state, env, trace, retval, outcomes>>
                ELSE \E choice \in BOOLEAN :
                       LET after == ExecArm(arms[k], m, choice)
                       IN  /\ state' = after.state
                           /\ env' = after.env
                           /\ trace' = after.trace
                           /\ outcomes' = after.outcomes
                           /\ retval' = after.retval
                           /\ fpc' = IF after.returned THEN "returned" ELSE "loop"
    /\ UNCHANGED <<statements, arg, blocks, hoisted_vars, presentation>>
    /\ UNCHANGED <<cpmVars, editVars, astVars, demoVars, passVars>>

NextFlatten == FlattenControlFlow \/ Call \/ LoopIteration

FlatIdle ==
    /\ fpc = "source" /\ blocks = <<>> /\ hoisted_vars = <<>> /\ presentation = <<>>
    /\ state = 0 /\ env = [v \in VarNames |-> 0] /\ trace = <<>> /\ retval = 0
    /\ outcomes = <<>>

\* any generated body
InitFlatten ==
    /\ statements \in Bodies /\ arg = 0 /\ FlatIdle
    /\ CpmIdle /\ EditIdle /\ AstIdle /\ DemoIdle /\ PassIdle
SpecFlatten == InitFlatten /\ [][NextFlatten]_vars

\* the scenario function, for every argument
InitScenario ==
    /\ statements = ScenarioF /\ arg \in 0..MaxArg /\ FlatIdle
    /\ CpmIdle /\ EditIdle /\ AstIdle /\ DemoIdle /\ PassIdle
SpecScenario == InitScenario /\ [][NextFlatten]_vars

-----------------------------------------------------------------------------
(***************************************************************************)
(* Properties of the flattener                                             *)
(***************************************************************************)
IsPrefix(s, t) == Len(s) <= Len(t) /\ \A i \in 1..Len(s) : s[i] = t[i]

Running == fpc \in {"loop", "returned", "exited"}

\* the loop is running with a state that no dispatch arm tests for: every
\* further iteration leaves `state` as it is
Spinning ==
    /\ fpc = "loop"
    /\ state # 0
    /\ MatchingArms(DispatchArms(blocks, presentation), state) = {}

\* C1: run from state = 1, the dispatcher executes the statements and
\* conditions of the original body, in the original order and with the same
\* branch at every if: what it has executed is always a prefix of what the
\* original executes under the same condition outcomes, and once it has
\* returned, left the loop or run out of blocks it has executed all of it,
\* with the same return value and variable values.
C1_SameStatementsSameOrder ==
    Running =>
        LET o == Original
        IN  /\ IsPrefix(trace, o.trace)
            /\ fpc = "returned" =>
                   /\ o.returned /\ ~o.blocked
                   /\ trace = o.trace /\ retval = o.retval /\ env = o.env
            /\ (fpc = "exited" \/ Spinning) =>
                   /\ ~o.returned /\ ~o.blocked
                   /\ trace = o.trace /\ env = o.env

\* a body with an if / else whose dispatcher ran to the end of the loop
C1_Witness ==
    /\ fpc = "exited"
    /\ Len(trace) >= 3
    /\ \E i \in 1..Len(statements) :
          statements[i].nodeType = "IfStatement" /\ statements[i].hasFalse
                                                /\ statements[i].id \in DOMAIN outcomes
                                                /\ ~outcomes[statements[i].id]

\* C2: the dispatcher loop terminates whenever the original body does: every
\* non-terminal path sets `state` to 0 or to the id of a block that exists, so
\* the loop never spins on a state no arm handles.
C2_LoopNeverSpins == ~Spinning

\* C3: the flattened scenario function returns a + 1 when a + 1 > 5 and 0
\* otherwise (11 for a = 10, 0 for a = 1), whatever the order of the arms; it
\* never falls out of the loop and never spins.
C3_ScenarioResult ==
    /\ fpc # "exited"
    /\ ~Spinning
    /\ fpc = "returned" =>
          /\ retval = (IF arg + 1 > 5 THEN arg + 1 ELSE 0)
          /\ arg = 10 => retval = 11
          /\ arg = 1 => retval = 0

C3_Witness == fpc = "returned" /\ arg = 10 /\ retval = 11 /\ presentation = <<4, 2, 3, 1>>

-----------------------------------------------------------------------------
(***************************************************************************)
(* ChaoticMapGenerator: the helper function it emits and the predicate    *)
(* that calls it, evaluated as the compiled contract evaluates them at    *)
(* the width HashBits (every literal and result of the helper fits).      *)
(***************************************************************************)
RECURSIVE Pow2(_)
Pow2(n) == IF n = 0 THEN 1 ELSE 2 * Pow2(n - 1)

HashValues == 0..(Pow2(HashBits) - 1)

\* int256(uint256(h)): the same bits read as two's complement
ToSigned(u) == IF u >= Pow2(HashBits - 1) THEN u - Pow2(HashBits) ELSE u

\* the signed `%` of the contract language: the result has the sign of the dividend
SignedRem(x, n) == IF x >= 0 THEN x % n ELSE -((-x) % n)

\* a helper whose negative variant subtracts 50 and whose even variant
\* forgets the doubling
HelperFunction_Narrow(v, h) ==
    CASE v = "positive" -> SignedRem(ToSigned(h), 100) + 20
      [] v = "negative" -> SignedRem(ToSigned(h), 100) - 50
      [] OTHER -> SignedRem(ToSigned(h), 50)

\* get_helper_function_code: the body of the emitted helper
HelperFunction(v, h) ==
    CASE v = "positive" -> SignedRem(ToSigned(h), 100) + 20
      [] v = "negative" -> SignedRem(ToSigned(h), 100) - 150
      [] OTHER -> SignedRem(ToSigned(h), 50) * 2

\* get_predicate_condition: the condition injected into every if / while
PredicateCondition(v, value) ==
    CASE v = "positive" -> value > 10
      [] v = "negative" -> value < -10
      [] OTHER -> SignedRem(value, 2) = 0

Variants == {"positive", "negative", "even"}

\* the helper is called on the seed state variable: its hash is any value
CallHelper ==
    /\ cpc = "generated"
    /\ \E h \in HashValues :
          /\ hash' = h
          /\ helper_value' = HelperFunction(variant, h)
    /\ cpc' = "hashed"
    /\ UNCHANGED <<variant, predicate>>
    /\ UNCHANGED <<flatVars, editVars, astVars, demoVars, passVars>>

\* the injected condition compares the helper's value
EvaluatePredicate ==
    /\ cpc = "hashed"
    /\ predicate' = PredicateCondition(variant, helper_value)
    /\ cpc' = "evaluated"
    /\ UNCHANGED <<variant, hash, helper_value>>
    /\ UNCHANGED <<flatVars, editVars, astVars, demoVars, passVars>>

NextCpm == CallHelper \/ EvaluatePredicate

\* ChaoticMapGenerator.__init__: random.choice of the variant
InitCpm ==
    /\ variant \in Variants /\ cpc = "generated" /\ hash = 0 /\ helper_value = 0
    /\ predicate = FALSE
    /\ statements = <<>> /\ arg = 0 /\ FlatIdle /\ EditIdle /\ AstIdle /\ DemoIdle
    /\ PassIdle

SpecCpm == InitCpm /\ [][NextCpm]_vars

\* C4: for the positive variant the helper's value is greater than 10 for
\* every hash, so the injected predicate is always true.
C4_PositiveAboveTen ==
    /\ (variant = "positive" /\ cpc # "generated") => helper_value > 10
    /\ (variant = "positive" /\ cpc = "evaluated") => predicate

\* C17: for the negative variant the helper's value is below -10 for every
\* hash, and for the even variant the helper's value v has v % 2 == 0 (signed
\* remainder) for every hash; the injected predicate of both is always true.
C17_NegativeAndEvenTautology ==
    /\ (variant = "negative" /\ cpc # "generated") => helper_value < -10
    /\ (variant = "even" /\ cpc # "generated") => SignedRem(helper_value, 2) = 0
    /\ (variant \in {"negative", "even"} /\ cpc = "evaluated") => predicate

\* a hash with the sign bit set has gone through the helper and the predicate
C17_Witness ==
    /\ variant \in {"negative", "even"}
    /\ cpc = "evaluated"
    /\ ToSigned(hash) < 0
    /\ SignedRem(ToSigned(hash), 50) # 0
    /\ predicate

-----------------------------------------------------------------------------
(***************************************************************************)
(* split_booleans_file: byte-range replacements are collected from the    *)
(* AST candidates, de-overlapped and applied to the bytes of the file.    *)
(* Offsets are 0-based and ranges half-open, as in the code.              *)
(***************************************************************************)
\* the bytes of the file: byte i of the source has the value i
SourceBytes == [i \in 1..BufLen |-> i]

\* b[i:j] of a byte string
Min(x, y) == IF x <= y THEN x ELSE y
Max(x, y) == IF x >= y THEN x ELSE y
Slice(b, i, j) ==
    LET lo == Min(Max(i, 0), Len(b))
        hi == Min(Max(j, 0), Len(b))
    IN  IF lo >= hi THEN <<>> ELSE SubSeq(b, lo + 1, hi)

\* the candidates of the AST walk: the `src` (start, length) of a literal
\* node, and whether the slice or the node's value is `true` / `false`:
\* every range of up to three bytes inside the file, an empty range, a range
\* that ends past the file, and a node that is no boolean literal
Candidates ==
    { [start |-> st, length |-> ln, literal |-> TRUE] :
          st \in 0..(BufLen - 1), ln \in 1..3 }
    \cup { [start |-> 1, length |-> 0, literal |-> TRUE],
           [start |-> 0, length |-> 2, literal |-> FALSE] }

\* _make_true_variant / _make_false_variant: two bytes that name the candidate
ReplacementFor(k) == <<100 + k, 100 + k>>

\* lines 292-316: one candidate of the walk
CollectCandidate(reps, c) ==
    LET start == c.start
        end == c.start + c.length
    IN  IF start < 0 \/ end > Len(src_bytes) \/ start >= end THEN reps
        ELSE IF ~c.literal THEN reps
        ELSE Append(reps, [start |-> start, end |-> end,
                           replacement_bytes |-> ReplacementFor(Len(reps) + 1)])

\* sorted(replacements, key=lambda x: (x["start"], -(x["end"] - x["start"]))):
\* a stable sort
SortKeyLess(x, y) ==
    \/ x.start < y.start
    \/ x.start = y.start /\ (x.end - x.start) > (y.end - y.start)

InsertByKey(sorted, r) ==
    LET after == { i \in 1..Len(sorted) : ~SortKeyLess(r, sorted[i]) }
        k == Cardinality(after)
    IN  SubSeq(sorted, 1, k) \o <<r>> \o SubSeq(sorted, k + 1, Len(sorted))

RECURSIVE SortedByKey(_)
SortedByKey(reps) ==
    IF reps = <<>> THEN <<>>
    ELSE InsertByKey(SortedByKey(SubSeq(reps, 1, Len(reps) - 1)), reps[Len(reps)])

\* mutant: an edit that starts one byte before the last kept end is kept
KeepsEdit_OffByOne(r, last_end) == r.start >= last_end - 1

\* line 323: if r["start"] >= last_end
KeepsEdit(r, last_end) == r.start >= last_end

\* lines 320-325: the sweep over the sorted replacements
RECURSIVE Sweep(_, _, _, _)
Sweep(sorted, i, kept, last_end) ==
    IF i > Len(sorted) THEN kept
    ELSE IF KeepsEdit(sorted[i], last_end)
         THEN Sweep(sorted, i + 1, Append(kept, sorted[i]), sorted[i].end)
         ELSE Sweep(sorted, i + 1, kept, last_end)

NonOverlap(reps) == Sweep(SortedByKey(reps), 1, <<>>, -1)

\* sorted(non_overlap, key=lambda x: x["start"], reverse=True): stable
InsertByStartDesc(sorted, r) ==
    LET before == { i \in 1..Len(sorted) : sorted[i].start >= r.start }
        k == Cardinality(before)
    IN  SubSeq(sorted, 1, k) \o <<r>> \o SubSeq(sorted, k + 1, Len(sorted))

RECURSIVE SortedByStartDesc(_)
SortedByStartDesc(reps) ==
    IF reps = <<>> THEN <<>>
    ELSE InsertByStartDesc(SortedByStartDesc(SubSeq(reps, 1, Len(reps) - 1)),
                           reps[Len(reps)])

\* mutant: the kept replacements are applied front to back
ApplicationOrder_Ascending(kept) == kept

\* line 330: the order the kept replacements are applied in
ApplicationOrder(kept) == SortedByStartDesc(kept)

\* line 331: new_bytes[r["start"]:r["end"]] = r["replacement_bytes"]
SliceAssign(b, r) ==
    LET lo == Min(r.start, Len(b))
        hi == Min(Max(r.end, lo), Len(b))
    IN  Slice(b, 0, lo) \o r.replacement_bytes \o Slice(b, hi, Len(b))

Collect ==
    /\ epc = "collect"
    /\ Len(replacements) < MaxEdits
    /\ \E c \in Candidates : replacements' = CollectCandidate(replacements, c)
    /\ UNCHANGED <<src_bytes, non_overlap, pending, new_bytes, epc>>
    /\ UNCHANGED <<flatVars, cpmVars, astVars, demoVars, passVars>>

Finalize ==
    /\ epc = "collect"
    /\ non_overlap' = NonOverlap(replacements)
    /\ epc' = "finalized"
    /\ UNCHANGED <<src_bytes, replacements, pending, new_bytes>>
    /\ UNCHANGED <<flatVars, cpmVars, astVars, demoVars, passVars>>

StartApply ==
    /\ epc = "finalized"
    /\ new_bytes' = src_bytes
    /\ pending' = ApplicationOrder(non_overlap)
    /\ epc' = "applying"
    /\ UNCHANGED <<src_bytes, replacements, non_overlap>>
    /\ UNCHANGED <<flatVars, cpmVars, astVars, demoVars, passVars>>

ApplyNext ==
    /\ epc = "applying"
    /\ IF pending = <<>>
       THEN epc' = "done" /\ UNCHANGED <<new_bytes, pending>>
       ELSE /\ new_bytes' = SliceAssign(new_bytes, Head(pending))
            /\ pending' = Tail(pending)
            /\ UNCHANGED epc
    /\ UNCHANGED <<src_bytes, replacements, non_overlap>>
    /\ UNCHANGED <<flatVars, cpmVars, astVars, demoVars, passVars>>

(***************************************************************************)
(* convert_locals_to_state: the replacements of the declaration statements *)
(* and of the identifier occurrences, then the insertion of the promoted   *)
(* declarations, applied to the bytes without an overlap sweep.            *)
(***************************************************************************)
\* the `src` ranges of the statements and identifiers of the AST
NodeRanges == { c \in Candidates : c.literal /\ c.length >= 1
                                     /\ c.start + c.length <= BufLen }

\* insert_pos_bytes of the contract
InsertPositions == 0..BufLen

\* lines 283-301: a declaration statement or an occurrence is replaced
PromoteLocal ==
    /\ epc = "ls_collect"
    /\ Len(replacements) < MaxEdits
    /\ \E c \in NodeRanges :
          replacements' = Append(replacements,
                [start |-> c.start, end |-> c.start + c.length,
                 replacement_bytes |-> ReplacementFor(Len(replacements) + 1)])
    /\ UNCHANGED <<src_bytes, non_overlap, pending, new_bytes, epc>>
    /\ UNCHANGED <<flatVars, cpmVars, astVars, demoVars, passVars>>

\* line 314: replacements.sort(key=lambda x: x[0], reverse=True)
LocalApplicationOrder(reps) == SortedByStartDesc(reps)

\* lines 274-275 and 303-315: nothing promoted returns the source; else the
\* block of promoted declarations is inserted and the replacements sorted
InsertGlobals ==
    /\ epc = "ls_collect"
    /\ IF replacements = <<>>
       THEN /\ new_bytes' = src_bytes
            /\ epc' = "ls_done"
            /\ UNCHANGED <<replacements, pending>>
       ELSE \E pos \in InsertPositions :
               LET all == Append(replacements,
                              [start |-> pos, end |-> pos,
                               replacement_bytes |-> ReplacementFor(0)])
               IN  /\ replacements' = all
                   /\ pending' = LocalApplicationOrder(all)
                   /\ new_bytes' = src_bytes
                   /\ epc' = "ls_applying"
    /\ UNCHANGED <<src_bytes, non_overlap>>
    /\ UNCHANGED <<flatVars, cpmVars, astVars, demoVars, passVars>>

\* line 317: out_bytes = out_bytes[:start] + text + out_bytes[end:]
SliceConcat(b, r) ==
    Slice(b, 0, r.start) \o r.replacement_bytes \o Slice(b, r.end, Len(b))

LocalApplyNext ==
    /\ epc = "ls_applying"
    /\ IF pending = <<>>
       THEN epc' = "ls_done" /\ UNCHANGED <<new_bytes, pending>>
       ELSE /\ new_bytes' = SliceConcat(new_bytes, Head(pending))
            /\ pending' = Tail(pending)
            /\ UNCHANGED epc
    /\ UNCHANGED <<src_bytes, replacements, non_overlap>>
    /\ UNCHANGED <<flatVars, cpmVars, astVars, demoVars, passVars>>

NextEdit ==
    \/ Collect \/ Finalize \/ StartApply \/ ApplyNext
    \/ PromoteLocal \/ InsertGlobals \/ LocalApplyNext

InitEdit ==
    /\ src_bytes = SourceBytes /\ replacements = <<>> /\ non_overlap = <<>>
    /\ pending = <<>> /\ new_bytes = <<>> /\ epc \in {"collect", "ls_collect"}
    /\ statements = <<>> /\ arg = 0 /\ FlatIdle /\ CpmIdle /\ AstIdle /\ DemoIdle
    /\ PassIdle

SpecEdit == InitEdit /\ [][NextEdit]_vars

-----------------------------------------------------------------------------
(***************************************************************************)
(* Properties of the range edits                                           *)
(***************************************************************************)
Swept == epc \in {"finalized", "applying", "done"}

\* C5: whatever was proposed (overlapping, nested, duplicated), the sweep
\* returns proposed edits only, sorted by ascending start and pairwise
\* non-overlapping.
C5_KeptSortedDisjoint ==
    Swept =>
        /\ \A i \in 1..Len(non_overlap) :
              \E j \in 1..Len(replacements) : non_overlap[i] = replacements[j]
        /\ \A i, j \in 1..Len(non_overlap) :
              i < j => /\ non_overlap[i].start <= non_overlap[j].start
                       /\ non_overlap[i].end <= non_overlap[j].start

\* three proposals, two of them overlapping: one is dropped
C5_Witness ==
    /\ epc = "finalized"
    /\ Len(replacements) = 3
    /\ Len(non_overlap) = 2
    /\ \E i, j \in 1..3 : i # j /\ replacements[i].start < replacements[j].end
                                /\ replacements[j].start < replacements[i].end

\* the edit set a pass applies, and the part of it already applied
FinalizedSet == IF epc \in {"ls_applying", "ls_done"} THEN replacements ELSE non_overlap

AppliedEdits ==
    SelectSeq(FinalizedSet, LAMBDA r : \A k \in 1..Len(pending) : pending[k] # r)

PairwiseDisjoint(ops) ==
    \A i, j \in 1..Len(ops) :
        i # j => ops[i].end <= ops[j].start \/ ops[j].end <= ops[i].start

InBounds(ops, buf) ==
    \A i \in 1..Len(ops) : 0 <= ops[i].start /\ ops[i].start <= ops[i].end
                                            /\ ops[i].end <= Len(buf)

\* the text the edits of `ops` insert at offset pos
RECURSIVE InsertedAt(_, _, _)
InsertedAt(ops, i, pos) ==
    IF i > Len(ops) THEN <<>>
    ELSE (IF ops[i].start = pos /\ ops[i].end = pos
          THEN ops[i].replacement_bytes ELSE <<>>) \o InsertedAt(ops, i + 1, pos)

\* the simultaneous substitution against the offsets of the original buffer,
\* read off position by position: what is inserted at pos, then the
\* replacement of the range that starts at pos, or the byte at pos itself
RECURSIVE SimultaneousFrom(_, _, _)
SimultaneousFrom(buf, ops, pos) ==
    LET here == { k \in 1..Len(ops) : ops[k].start = pos /\ ops[k].end > pos }
    IN  InsertedAt(ops, 1, pos) \o
        (IF here # {}
         THEN LET k == CHOOSE k \in here : TRUE
              IN  ops[k].replacement_bytes \o SimultaneousFrom(buf, ops, ops[k].end)
         ELSE IF pos >= Len(buf) THEN <<>>
         ELSE <<buf[pos + 1]>> \o SimultaneousFrom(buf, ops, pos + 1))

\* C6: applying a finalized (pairwise non-overlapping, in-bounds) edit set in
\* descending start order gives the simultaneous substitution against the
\* original offsets: after each application the buffer is the original with
\* exactly the applied ranges replaced and every other byte kept in order.
C6_ApplyIsSimultaneous ==
    (/\ epc \in {"applying", "done", "ls_applying", "ls_done"}
     /\ PairwiseDisjoint(FinalizedSet) /\ InBounds(FinalizedSet, src_bytes))
        => new_bytes = SimultaneousFrom(src_bytes, AppliedEdits, 0)

\* the sweep kept two edits, both applied, and the buffer changed its length
C6_Witness ==
    /\ epc = "done"
    /\ Len(non_overlap) >= 2
    /\ non_overlap[1].end - non_overlap[1].start # Len(non_overlap[1].replacement_bytes)
    /\ Len(new_bytes) # Len(src_bytes)

-----------------------------------------------------------------------------
(***************************************************************************)
(* How the AST-driven passes obtain their AST.  A source text is a         *)
(* sequence of tokens, <<>> the empty text; an edited text has one more.   *)
(* insert_opaque_predicates and flatten_control_flow compile the source    *)
(* themselves and return the text only; convert_locals_to_state and        *)
(* split_scalar_variables load the AST file they are handed and return the *)
(* text with a count.                                                      *)
(***************************************************************************)
SourceTexts == {<<>>, <<"A">>, <<"B">>}

\* compile_files: it raises, its result has no entry for the file, the
\* entry has no "ast", or the entry holds the AST
CompileResults == {"raises", "no_entry", "no_ast", "ast"}

\* the AST file handed to a pass (ast_json_path), or the file_path_hint of
\* the opaque pass: None, a path to no file, a file that cannot be opened
\* or parsed, a file that holds an AST
PathStates == {"none", "missing", "unreadable", "ok"}

\* the rest of a pass once it holds an AST: nothing to edit, edits applied,
\* or an error walking the AST
RestOutcomes == {"unchanged", "edited", "raises"}

\* opaque_predicate_obfuscator.py _get_ast: TRUE iff an AST is returned
OpaqueGetAst(solcx_present, file_path_hint, source_code, compile) ==
    IF ~solcx_present THEN FALSE
    ELSE IF source_code = <<>> /\ file_path_hint \in {"none", "missing"} THEN FALSE
    ELSE compile = "ast"

\* flattening_obfuscator.py _get_ast: without solcx, compile_files is an
\* unbound name and the NameError is caught with every other exception
FlatteningGetAst(solcx_present, compile) ==
    IF ~solcx_present THEN FALSE ELSE compile = "ast"

\* mutant: only an absent AST file is handled
AstFileUnavailable_AbsentOnly(ast_json_path) == ast_json_path \in {"none", "missing"}

\* `not ast_json_path or not os.path.exists(ast_json_path)`, or json.load
\* raising inside the try
AstFileUnavailable(ast_json_path) == ast_json_path \in {"none", "missing", "unreadable"}

Returned(c, text, n) == [c EXCEPT !.raised = FALSE, !.result = text, !.count = n]
Raised(c) == [c EXCEPT !.raised = TRUE, !.result = <<>>, !.count = 0]

\* the pass goes on with the AST it holds
RestOfPass(c, have_ast) ==
    IF ~have_ast \/ c.rest = "raises" THEN Raised(c)
    ELSE IF c.rest = "unchanged" THEN Returned(c, c.source_code, 0)
    ELSE Returned(c, Append(c.source_code, c.pass), 1)

NewCall(pass, source_code, solcx_present, compile, path, rest) ==
    [NoCall EXCEPT !.pass = pass, !.source_code = source_code,
                   !.solcx = solcx_present, !.compile = compile,
                   !.path = path, !.rest = rest]

InsertOpaquePredicates ==
    \E source_code \in SourceTexts, solcx_present \in BOOLEAN,
       compile \in CompileResults, hint \in {"none", "missing", "ok"},
       rest \in RestOutcomes :
        LET c == NewCall("insert_opaque_predicates", source_code, solcx_present,
                         compile, hint, rest)
            r == RestOfPass(c, TRUE)
        IN  /\ call' = IF ~OpaqueGetAst(solcx_present, hint, source_code, compile)
                       THEN Returned(c, source_code, 0)
                       ELSE [r EXCEPT !.count = 0]
            /\ UNCHANGED <<flatVars, cpmVars, editVars, demoVars, passVars>>

FlattenSource ==
    \E source_code \in SourceTexts, solcx_present \in BOOLEAN,
       compile \in CompileResults, rest \in RestOutcomes :
        LET c == NewCall("flatten_control_flow", source_code, solcx_present,
                         compile, "none", rest)
            r == RestOfPass(c, TRUE)
        IN  /\ call' = IF ~FlatteningGetAst(solcx_present, compile)
                       THEN Returned(c, source_code, 0)
                       ELSE [r EXCEPT !.count = 0]
            /\ UNCHANGED <<flatVars, cpmVars, editVars, demoVars, passVars>>

ConvertLocalsToState ==
    \E source_text \in SourceTexts, ast_json_path \in PathStates,
       rest \in RestOutcomes :
        LET c == NewCall("convert_locals_to_state", source_text, TRUE, "ast",
                         ast_json_path, rest)
        IN  /\ call' = IF AstFileUnavailable(ast_json_path)
                       THEN Returned(c, source_text, 0)
                       ELSE RestOfPass(c, ast_json_path = "ok")
            /\ UNCHANGED <<flatVars, cpmVars, editVars, demoVars, passVars>>

SplitScalarVariables ==
    \E source_text \in SourceTexts, ast_json_path \in PathStates,
       rest \in RestOutcomes :
        LET c == NewCall("split_scalar_variables", source_text, TRUE, "ast",
                         ast_json_path, rest)
        IN  /\ call' = IF AstFileUnavailable(ast_json_path)
                       THEN Returned(c, source_text, 0)
                       ELSE RestOfPass(c, ast_json_path = "ok")
            /\ UNCHANGED <<flatVars, cpmVars, editVars, demoVars, passVars>>

NextAst ==
    \/ InsertOpaquePredicates \/ FlattenSource
    \/ ConvertLocalsToState \/ SplitScalarVariables

InitAst ==
    /\ call = NoCall
    /\ statements = <<>> /\ arg = 0 /\ FlatIdle /\ CpmIdle /\ EditIdle /\ DemoIdle
    /\ PassIdle

SpecAst == InitAst /\ [][NextAst]_vars

\* the AST of a call cannot be obtained: the compilation fails or yields no
\* AST, or the AST file is missing or unreadable
AstNotObtained(c) ==
    IF c.pass \in {"insert_opaque_predicates", "flatten_control_flow"}
    THEN ~c.solcx \/ c.compile # "ast"
    ELSE c.path # "ok"

\* C10: when the AST of an AST-driven pass cannot be obtained, the pass does
\* not raise and returns its input source unchanged, with a count of 0.
C10_NoAstPassSkipped ==
    (call.pass # "none" /\ AstNotObtained(call)) =>
        /\ ~call.raised
        /\ call.result = call.source_code
        /\ call.count = 0

\* convert_locals_to_state was handed an AST file that cannot be parsed
C10_Witness ==
    /\ call.pass = "convert_locals_to_state"
    /\ call.path = "unreadable"
    /\ call.source_code = <<"A">>
    /\ ~call.raised /\ call.result = <<"A">> /\ call.count = 0

-----------------------------------------------------------------------------
(***************************************************************************)
(* run_demo: the passes in their order.  The source text is a version      *)
(* number: 0 is the input file, every change of the text is one more.      *)
(***************************************************************************)
PassPhases ==
    {"preprocessing", "opaque_predicates", "flattening", "local_state",
     "static_data", "boolean", "integer", "scalar", "comment_removal",
     "format_scrambling", "renaming"}

\* what the call of a pass does: it raises, it returns the text it was
\* given, or it returns another text.  OpaquePredicateInserter and
\* FlatteningObfuscator have no method `obfuscate`: the calls of lines 204
\* and 220 raise AttributeError
PassOutcomes(pass) ==
    IF pass \in {"opaque_predicates", "flattening"} THEN {"raises"}
    ELSE {"raises", "same", "changed"}

\* next_step(source_code, step_name), lines 154-169; `regenerated` is the
\* result of _regenerate_ast_from_source
NextStep(source_code, regenerated) ==
    /\ step_counter' = step_counter + 1
    /\ IF regenerated
       THEN current_ast_path' = step_counter + 1 /\ ast_source' = source_code
       ELSE UNCHANGED <<current_ast_path, ast_source>>

\* the pass is skipped or disabled
SkipPass(next) ==
    /\ dpc' = next
    /\ UNCHANGED <<current_source, current_ast_path, step_counter, ast_source,
                   last_failed>>

\* the except branch of a pass
PassFailed(pass, next) ==
    /\ dpc' = next
    /\ last_failed' = [pass |-> pass, source |-> current_source,
                       ast_path |-> current_ast_path]
    /\ UNCHANGED <<current_source, current_ast_path, step_counter, ast_source>>

\* the result is assigned and next_step called
AssignResult(outcome, regenerated, next) ==
    LET result == IF outcome = "changed" THEN current_source + 1 ELSE current_source
    IN  /\ current_source' = result
        /\ NextStep(result, regenerated)
        /\ dpc' = next
        /\ UNCHANGED last_failed

\* try: current_source = pass(...); current_ast_path = next_step(...)
AssignAlways(pass, next) ==
    \E outcome \in PassOutcomes(pass), regenerated \in BOOLEAN :
        IF outcome = "raises" THEN PassFailed(pass, next)
        ELSE AssignResult(outcome, regenerated, next)

\* try: code, count = pass(...); if count > 0: current_source = code; ...
AssignIfCount(pass, next) ==
    \E outcome \in PassOutcomes(pass), regenerated \in BOOLEAN :
        IF outcome = "raises" THEN PassFailed(pass, next)
        ELSE IF outcome = "same" THEN SkipPass(next)
        ELSE AssignResult(outcome, regenerated, next)

DemoFrame == UNCHANGED <<flatVars, cpmVars, editVars, astVars, passVars>>

\* lines 117-151: the input is read, solc installed, the initial AST made
Start ==
    /\ dpc = "start"
    /\ \E input_exists \in BOOLEAN, solc_installed \in BOOLEAN,
          regenerated \in BOOLEAN, mode \in BOOLEAN :
          IF ~input_exists \/ ~solc_installed
          THEN /\ dpc' = "refused"
               /\ UNCHANGED <<static_only, ast_source>>
          ELSE /\ dpc' = "preprocessing"
               /\ static_only' = mode
               /\ ast_source' = IF regenerated THEN current_source ELSE ast_source
    /\ UNCHANGED <<current_source, current_ast_path, step_counter, output_file,
                   last_failed>>
    /\ DemoFrame

\* lines 173-192
Preprocessing ==
    /\ dpc = "preprocessing"
    /\ \E enable_preprocessing \in BOOLEAN :
          IF static_only \/ ~enable_preprocessing
          THEN SkipPass("opaque_predicates")
          ELSE AssignAlways("preprocessing", "opaque_predicates")
    /\ UNCHANGED <<static_only, output_file>> /\ DemoFrame

\* lines 194-211
OpaquePredicates ==
    /\ dpc = "opaque_predicates"
    /\ \E enable_cpm \in BOOLEAN :
          IF static_only \/ ~enable_cpm
          THEN SkipPass("flattening")
          ELSE AssignIfCount("opaque_predicates", "flattening")
    /\ UNCHANGED <<static_only, output_file>> /\ DemoFrame

\* lines 213-231
Flattening ==
    /\ dpc = "flattening"
    /\ IF static_only
       THEN SkipPass("local_state")
       ELSE AssignIfCount("flattening", "local_state")
    /\ UNCHANGED <<static_only, output_file>> /\ DemoFrame

\* lines 233-247
LocalState ==
    /\ dpc = "local_state"
    /\ \E enable_local_state \in BOOLEAN :
          IF enable_local_state
          THEN AssignIfCount("local_state", "static_data")
          ELSE SkipPass("static_data")
    /\ UNCHANGED <<static_only, output_file>> /\ DemoFrame

\* lines 249-260
StaticData ==
    /\ dpc = "static_data"
    /\ \E enable_static \in BOOLEAN :
          IF enable_static
          THEN AssignAlways("static_data", "boolean")
          ELSE SkipPass("boolean")
    /\ UNCHANGED <<static_only, output_file>> /\ DemoFrame

\* lines 262-280
BooleanPass ==
    /\ dpc = "boolean"
    /\ IF static_only THEN SkipPass("integer")
       ELSE AssignAlways("boolean", "integer")
    /\ UNCHANGED <<static_only, output_file>> /\ DemoFrame

\* lines 282-292
IntegerPass ==
    /\ dpc = "integer"
    /\ IF static_only THEN SkipPass("scalar")
       ELSE AssignAlways("integer", "scalar")
    /\ UNCHANGED <<static_only, output_file>> /\ DemoFrame

\* lines 294-310; line 312: static-only mode goes on to the output
Scalar ==
    /\ dpc = "scalar"
    /\ \E enable_scalar \in BOOLEAN :
          IF static_only THEN SkipPass("write")
          ELSE IF ~enable_scalar THEN SkipPass("comment_removal")
          ELSE AssignIfCount("scalar", "comment_removal")
    /\ UNCHANGED <<static_only, output_file>> /\ DemoFrame

\* lines 316-323
CommentRemoval ==
    /\ dpc = "comment_removal"
    /\ AssignAlways("comment_removal", "format_scrambling")
    /\ UNCHANGED <<static_only, output_file>> /\ DemoFrame

\* lines 325-341: no try around scramble_format; its exception leaves
\* run_demo
FormatScrambling ==
    /\ dpc = "format_scrambling"
    /\ \E enable_formatting \in BOOLEAN, regenerated \in BOOLEAN,
          outcome \in PassOutcomes("format_scrambling") :
          IF ~enable_formatting THEN SkipPass("renaming")
          ELSE IF outcome = "raises" THEN PassFailed("format_scrambling", "aborted")
          ELSE AssignResult(outcome, regenerated, "renaming")
    /\ UNCHANGED <<static_only, output_file>> /\ DemoFrame

\* lines 343-357
Renaming ==
    /\ dpc = "renaming"
    /\ AssignAlways("renaming", "write")
    /\ UNCHANGED <<static_only, output_file>> /\ DemoFrame

\* lines 358-364
WriteOutput ==
    /\ dpc = "write"
    /\ \E written \in BOOLEAN :
          IF written
          THEN output_file' = current_source /\ dpc' = "done"
          ELSE UNCHANGED output_file /\ dpc' = "write_failed"
    /\ UNCHANGED <<static_only, current_source, current_ast_path, step_counter,
                   ast_source, last_failed>>
    /\ DemoFrame

NextDemo ==
    \/ Start \/ Preprocessing \/ OpaquePredicates \/ Flattening \/ LocalState
    \/ StaticData \/ BooleanPass \/ IntegerPass \/ Scalar \/ CommentRemoval
    \/ FormatScrambling \/ Renaming \/ WriteOutput

\* test/test_ast_step0.json and the output file are absent or left by an
\* earlier run
InitDemo ==
    /\ dpc = "start" /\ static_only = FALSE /\ current_source = 0
    /\ current_ast_path = 0 /\ step_counter = 0
    /\ ast_source \in {Missing, PreviousRun}
    /\ output_file \in {Missing, PreviousRun}
    /\ last_failed = NoFailure
    /\ statements = <<>> /\ arg = 0 /\ FlatIdle /\ CpmIdle /\ EditIdle /\ AstIdle
    /\ PassIdle

SpecDemo == InitDemo /\ [][NextDemo]_vars

-----------------------------------------------------------------------------
(***************************************************************************)
(* Properties of run_demo                                                  *)
(***************************************************************************)
RunEnded == dpc \in {"done", "aborted"}

\* C7: at the start of every pass the AST file at current_ast_path was
\* compiled from exactly the current source, whatever the outcome of each
\* AST regeneration.
C7_AstCompiledFromCurrentSource ==
    dpc \in PassPhases => ast_source = current_source

\* C8: a pass that raises does not end the run: the remaining passes run and
\* the final current source is written to the output file.
C8_NoPassFailureAborts ==
    (last_failed # NoFailure /\ RunEnded) =>
        dpc = "done" /\ output_file = current_source

\* a pass that raises leaves current_source and current_ast_path as it
\* found them
FailedPassKeepsState ==
    [][last_failed' # last_failed =>
          /\ current_source' = current_source
          /\ current_ast_path' = current_ast_path]_vars

\* C9: when pass K raised and no later pass changed the source, the written
\* output is the source pass K was entered with.
C9_OutputIsSourceBeforeFailedPass ==
    (RunEnded /\ last_failed # NoFailure /\ current_source = last_failed.source) =>
        output_file = last_failed.source

-----------------------------------------------------------------------------
(***************************************************************************)
(* flatten_control_flow over a source with several functions.  The source *)
(* is a sequence of tokens, one per byte: each function is the token      *)
(* "function" followed by ";" or by its body "{" statements "}".          *)
(***************************************************************************)
\* a block statement: a statement with statements inside that is no branch
BlockStmt(id, body) == Stmt("Block", id, "", "", NoExpr, NoExpr, body, <<>>, FALSE)

\* the bodies of the functions of a source: empty, one statement of every
\* kind, one block with an if inside, two statements
FunctionBodies ==
    BodiesOfLen(1)
    \cup { <<>>,
           <<BlockStmt(10, <<IfStmt(11, Opaque(11), <<>>)>>)>>,
           <<BlockStmt(10, <<ExprStmt(11)>>)>>,
           <<ExprStmt(10), ExprStmt(20)>>,
           <<ExprStmt(10), ReturnStmt(20, Opaque(20))>> }

\* a FunctionDefinition node: `implemented`, and the statements of its body
FunctionNodes ==
    { [implemented |-> TRUE, statements |-> b] : b \in FunctionBodies }
    \cup { [implemented |-> FALSE, statements |-> <<>>] }

RECURSIVE SourcesOfLen(_)
SourcesOfLen(n) ==
    IF n = 0 THEN { <<>> }
    ELSE { Append(s, f) : s \in SourcesOfLen(n - 1), f \in FunctionNodes }

Sources == UNION { SourcesOfLen(n) : n \in 1..MaxFunctions }

StatementTokens(stmts) == [i \in 1..Len(stmts) |-> stmts[i].nodeType]

\* the text of a body as written, and of a function
BodyText(stmts) == <<"{">> \o StatementTokens(stmts) \o <<"}">>
FunctionText(f) ==
    <<"function">> \o (IF f.implemented THEN BodyText(f.statements) ELSE <<";">>)

RECURSIVE TextOf(_, _)
TextOf(fs, i) ==
    IF i > Len(fs) THEN <<>> ELSE FunctionText(fs[i]) \o TextOf(fs, i + 1)

\* the `src` of the body of function i: (start, end) in bytes
BodyRange(fs, i) ==
    LET start == Len(TextOf(SubSeq(fs, 1, i - 1), 1)) + 1
    IN  <<start, start + Len(BodyText(fs[i].statements))>>

\* lines 117-123 (_find_functions): the implemented functions with a body
RECURSIVE FindFunctions(_, _)
FindFunctions(fs, i) ==
    IF i > Len(fs) THEN <<>>
    ELSE (IF fs[i].implemented
          THEN <<[body |-> fs[i].statements, range |-> BodyRange(fs, i)]>>
          ELSE <<>>) \o FindFunctions(fs, i + 1)

\* line 70: functions_to_flatten.sort(key=lambda x: x['range'][0], reverse=True)
RECURSIVE SortedByRangeDesc(_)
SortedByRangeDesc(fns) ==
    IF fns = <<>> THEN <<>>
    ELSE LET r == fns[Len(fns)]
             sorted == SortedByRangeDesc(SubSeq(fns, 1, Len(fns) - 1))
             k == Cardinality({ i \in 1..Len(sorted) : sorted[i].range[1] >= r.range[1] })
         IN  SubSeq(sorted, 1, k) \o <<r>> \o SubSeq(sorted, k + 1, Len(sorted))

\* lines 96-100: the dispatcher generated for the blocks of the body
FlattenedBody(stmts) ==
    LET r == CreateBasicBlocks(stmts)
    IN  <<"{", "uint256 state = 1;", "while (state != 0) {">>
        \o [i \in 1..Len(r.blocks) |-> "if (state == k) {...}"]
        \o <<"}", "}">>

\* lines 57-70: the functions are found and sorted bottom-up
FindAndSortFunctions ==
    /\ flattening.pc = "called"
    /\ flattening' = [flattening EXCEPT
          !.pc = "loop",
          !.functions_to_flatten = SortedByRangeDesc(FindFunctions(flattening.functions, 1)),
          !.modified_source = flattening.source_bytes,
          !.count = 0]
    /\ UNCHANGED <<flatVars, cpmVars, editVars, astVars, demoVars>>
    /\ UNCHANGED OtherThanFlattening

\* lines 75-112: one iteration of the loop over functions_to_flatten
FlattenNextFunction ==
    /\ flattening.pc = "loop"
    /\ IF flattening.functions_to_flatten = <<>>
       THEN flattening' = [flattening EXCEPT !.pc = "returned"]
       ELSE LET func == Head(flattening.functions_to_flatten)
                rest == Tail(flattening.functions_to_flatten)
            IN  IF Skipped(func.body)
                THEN flattening' = [flattening EXCEPT !.functions_to_flatten = rest]
                ELSE flattening' = [flattening EXCEPT
                        !.functions_to_flatten = rest,
                        !.modified_source =
                            SliceAssign(@, [start |-> func.range[1], end |-> func.range[2],
                                            replacement_bytes |-> FlattenedBody(func.body)]),
                        !.count = @ + 1]
    /\ UNCHANGED <<flatVars, cpmVars, editVars, astVars, demoVars>>
    /\ UNCHANGED OtherThanFlattening

NextFlattenSource == FindAndSortFunctions \/ FlattenNextFunction

InitFlattenSource ==
    /\ \E fs \in Sources :
          flattening = [pc |-> "called", functions |-> fs,
                        source_bytes |-> TextOf(fs, 1),
                        functions_to_flatten |-> <<>>, modified_source |-> <<>>,
                        count |-> 0]
    /\ statements = <<>> /\ arg = 0 /\ FlatIdle /\ CpmIdle /\ EditIdle /\ AstIdle
    /\ DemoIdle /\ FlatteningAlone

SpecFlattenSource == InitFlattenSource /\ [][NextFlattenSource]_vars

\* a function the skip policy names: no implemented body, or fewer than two
\* statements and no branching anywhere in the body
LeftAlone(f) ==
    \/ ~f.implemented
    \/ Len(f.statements) < 2 /\ ~HasBranching(f.statements)

\* the output in which every function left alone keeps its bytes and every
\* other function has its body replaced
RECURSIVE ExpectedText(_, _)
ExpectedText(fs, i) ==
    IF i > Len(fs) THEN <<>>
    ELSE (IF LeftAlone(fs[i]) THEN FunctionText(fs[i])
          ELSE <<"function">> \o FlattenedBody(fs[i].statements))
         \o ExpectedText(fs, i + 1)

\* C11: a function with fewer than two statements and no branching, or
\* without an implemented body, keeps its bytes in the output and is not
\* counted, whatever other functions of the source are flattened.
C11_SkippedFunctionsUntouched ==
    flattening.pc = "returned" =>
        /\ flattening.modified_source = ExpectedText(flattening.functions, 1)
        /\ flattening.count =
              Cardinality({ i \in 1..Len(flattening.functions) :
                              ~LeftAlone(flattening.functions[i]) })

\* a one-statement function in front of a flattened one
C11_Witness ==
    /\ flattening.pc = "returned"
    /\ Len(flattening.functions) = 2
    /\ flattening.functions[1] = [implemented |-> TRUE, statements |-> <<ExprStmt(10)>>]
    /\ ~LeftAlone(flattening.functions[2])
    /\ flattening.count = 1
    /\ SubSeq(flattening.modified_source, 1, 4)
          = <<"function", "{", "ExpressionStatement", "}">>

-----------------------------------------------------------------------------
(***************************************************************************)
(* CommentRemover.remove_comments.  A text is a sequence of characters.    *)
(***************************************************************************)
Alphabet == {"/", "*", "\"", "\n", "\\"}

TextsOfLen(n) == [1..n -> Alphabet]

Texts(longest) == UNION { TextsOfLen(n) : n \in 0..longest }

IsAt(text, i, c) == i >= 1 /\ i <= Len(text) /\ text[i] = c

SmallestOf(S) == CHOOSE k \in S : \A j \in S : k <= j

\* /\*[\s\S]*?\*/ at character i: the index of the closing "/", 0 if no match
BlockCommentEnd(text, i) ==
    LET closes == { k \in (i + 2)..(Len(text) - 1) : text[k] = "*" /\ text[k + 1] = "/" }
    IN  IF IsAt(text, i, "/") /\ IsAt(text, i + 1, "*") /\ closes # {}
        THEN SmallestOf(closes) + 1 ELSE 0

\* ///[^\n\r]* or //[^\n\r]* at character i: the index of its last character
LineCommentEnd(text, i) ==
    LET stops == { k \in (i + 2)..Len(text) : text[k] \in {"\n", "\r"} }
    IN  IF IsAt(text, i, "/") /\ IsAt(text, i + 1, "/")
        THEN (IF stops = {} THEN Len(text) ELSE SmallestOf(stops) - 1)
        ELSE 0

\* combined_pattern at character i, the block comment tried first
MatchEnd(text, i) ==
    IF BlockCommentEnd(text, i) # 0 THEN BlockCommentEnd(text, i)
    ELSE LineCommentEnd(text, i)

\* _is_inside_string(position, text): the double quotes of text[:position]
\* that no backslash precedes are odd in number
IsInsideString(position, text) ==
    Cardinality({ i \in 1..position :
                    text[i] = "\"" /\ (i = 1 \/ text[i - 1] # "\\") }) % 2 = 1

\* lines 31-46: re.finditer from character i on; an operation is the
\* (start, end) of a match that is not inside a string
RECURSIVE FindOperations(_, _)
FindOperations(text, i) ==
    IF i > Len(text) THEN <<>>
    ELSE LET e == MatchEnd(text, i)
         IN  IF e = 0 THEN FindOperations(text, i + 1)
             ELSE (IF IsInsideString(i - 1, text) THEN <<>>
                   ELSE <<[start |-> i - 1, end |-> e]>>)
                  \o FindOperations(text, e + 1)

\* lines 48-50: the operations applied from the last to the first
RECURSIVE ApplyRemovals(_, _, _)
ApplyRemovals(result, ops, k) ==
    IF k = 0 THEN result
    ELSE ApplyRemovals(Slice(result, 0, ops[k].start)
                          \o Slice(result, ops[k].end, Len(result)), ops, k - 1)

RemoveCommentsOf(text) ==
    LET ops == FindOperations(text, 1)
    IN  ApplyRemovals(text, ops, Len(ops))

\* remove_comments on the source
RemoveComments ==
    /\ comment_remover.pc = "made"
    /\ comment_remover' = [comment_remover EXCEPT
          !.pc = "removed", !.result = RemoveCommentsOf(comment_remover.src)]
    /\ UNCHANGED <<flatVars, cpmVars, editVars, astVars, demoVars>>
    /\ UNCHANGED OtherThanCommentRemover

\* remove_comments on the result
RemoveCommentsAgain ==
    /\ comment_remover.pc = "removed"
    /\ comment_remover' = [comment_remover EXCEPT
          !.pc = "removed_again", !.again = RemoveCommentsOf(comment_remover.result)]
    /\ UNCHANGED <<flatVars, cpmVars, editVars, astVars, demoVars>>
    /\ UNCHANGED OtherThanCommentRemover

NextCommentRemover == RemoveComments \/ RemoveCommentsAgain

InitCommentRemover ==
    /\ \E x \in Texts(MaxTextLen) :
          comment_remover = [pc |-> "made", src |-> x, result |-> <<>>, again |-> <<>>]
    /\ statements = <<>> /\ arg = 0 /\ FlatIdle /\ CpmIdle /\ EditIdle /\ AstIdle
    /\ DemoIdle /\ CommentRemoverAlone

SpecCommentRemover == InitCommentRemover /\ [][NextCommentRemover]_vars

\* C12: comment stripping is idempotent: stripping the stripped text gives
\* the stripped text, for every source text.
C12_StripIdempotent ==
    comment_remover.pc = "removed_again" =>
        comment_remover.again = comment_remover.result

-----------------------------------------------------------------------------
(***************************************************************************)
(* The integer disguise: _gen_expr_for (interger_obfuscator.py) and        *)
(* _generate_integer_expression (its older copy, which keeps 0 as it is).  *)
(* The expression ((n op1 r) op2 r) is kept as its operators and operands  *)
(* and evaluated in unsigned integers of IntBits bits that wrap around.    *)
(***************************************************************************)
IntLiterals == 0..(Pow2(IntBits) - 1)

Strategies == {"add", "sub", "mul", "shift", "xor"}

\* random.randint of each strategy
RandomParameters(strat) ==
    CASE strat = "add" -> 1..100
      [] strat = "sub" -> 1..100
      [] strat = "mul" -> 2..10
      [] strat = "shift" -> 1..3
      [] OTHER -> 1..255

\* the f-string each strategy returns
ExprFor(strat, n, r) ==
    CASE strat = "add" -> [inner |-> "+", outer |-> "-", n |-> n, r |-> r]
      [] strat = "sub" -> [inner |-> "-", outer |-> "+", n |-> n, r |-> r]
      [] strat = "mul" -> [inner |-> "*", outer |-> "/", n |-> n, r |-> r]
      [] strat = "shift" -> [inner |-> "<<", outer |-> ">>", n |-> n, r |-> r]
      [] OTHER -> [inner |-> "^", outer |-> "^", n |-> n, r |-> r]

\* `if n == 0: return "0"` of the older copy
LiteralExpr(n) == [inner |-> "lit", outer |-> "lit", n |-> n, r |-> 0]

Wrap(x) == x % Pow2(IntBits)

RECURSIVE Xor(_, _)
Xor(a, b) ==
    IF a = 0 /\ b = 0 THEN 0
    ELSE (((a % 2) + (b % 2)) % 2) + 2 * Xor(a \div 2, b \div 2)

\* one operator of the contract language on IntBits-bit unsigned integers
ApplyOp(op, a, b) ==
    CASE op = "+" -> Wrap(a + b)
      [] op = "-" -> Wrap(a - b)
      [] op = "*" -> Wrap(a * b)
      [] op = "/" -> a \div b
      [] op = "<<" -> Wrap(a * Pow2(b))
      [] op = ">>" -> a \div Pow2(b)
      [] op = "^" -> Xor(a, b)
      [] OTHER -> a

EvaluateExpr(e) == ApplyOp(e.outer, ApplyOp(e.inner, e.n, e.r), e.r)

\* _gen_expr_for(n), or _generate_integer_expression(n) of the older copy
GenExprFor ==
    /\ integer_expr.pc = "literal"
    /\ \E strat \in Strategies, older_copy \in BOOLEAN :
         \E r \in RandomParameters(strat) :
            LET e == IF older_copy /\ integer_expr.n = 0
                     THEN LiteralExpr(integer_expr.n)
                     ELSE ExprFor(strat, integer_expr.n, r)
            IN  integer_expr' = [integer_expr EXCEPT
                    !.pc = "generated", !.strat = strat, !.expr = e,
                    !.value = EvaluateExpr(e)]
    /\ UNCHANGED <<flatVars, cpmVars, editVars, astVars, demoVars>>
    /\ UNCHANGED OtherThanIntegerExpr

NextIntegerExpr == GenExprFor

InitIntegerExpr ==
    /\ \E n \in IntLiterals :
          integer_expr = [pc |-> "literal", n |-> n, strat |-> "none",
                          expr |-> LiteralExpr(n), value |-> 0]
    /\ statements = <<>> /\ arg = 0 /\ FlatIdle /\ CpmIdle /\ EditIdle /\ AstIdle
    /\ DemoIdle /\ IntegerExprAlone

SpecIntegerExpr == InitIntegerExpr /\ [][NextIntegerExpr]_vars

\* C13: for every literal n, every strategy and every parameter the strategy
\* can draw, the generated expression evaluates under fixed-width wraparound
\* arithmetic to exactly n.
C13_DisguiseEvaluatesToLiteral ==
    integer_expr.pc = "generated" => integer_expr.value = integer_expr.n

-----------------------------------------------------------------------------
\* VariableRenamer (biAn-clone/src/obfuscator/layout/variable_renamer.py)

MaxIdents == 3
DigestLen == 2

\* the distinct original identifiers of a source
Idents == 1..MaxIdents

\* source_code as the sequence of its identifier tokens
RenamerSourcesOfLen(n) == [1..n -> Idents]

RenamerSources == UNION {RenamerSourcesOfLen(n) : n \in 0..MaxIdents}

\* hash_obj.hexdigest(): a fixed string of digits per name; nothing in the
\* code relates the digests of two names, so every table is possible
HexDigits == {"0", "f"}

Digests == [1..DigestLen -> HexDigits]

DigestTables == [Idents -> Digests]

\* hash_length of the constructor (any int the caller passes)
HashLengths == 0..DigestLen

\* hash_hex[:self.hash_length], then f"{self.prefix}{hash_part}"
GenerateHashName(hexdigest, hash_length) ==
    [prefix |-> "OX", hash_part |-> SubSeq(hexdigest, 1, Min(hash_length, Len(hexdigest)))]

\* extract_identifiers_from_ast: the names that occur in the source
ExtractIdentifiersFromAst(source_code) ==
    {source_code[k] : k \in 1..Len(source_code)}

\* for identifier in identifiers: if identifier not in self.identifier_map: ...
\* (no comparison of the new name with the names already in the map)
GenerateMappings(identifiers, hexdigest, hash_length) ==
    [i \in identifiers |-> GenerateHashName(hexdigest[i], hash_length)]

\* for original in sorted_identifiers: re.sub(\boriginal\b, obfuscated, code)
ReplaceIdentifiers(source_code, identifier_map) ==
    [k \in 1..Len(source_code) |-> identifier_map[source_code[k]]]

\* VariableRenamer.obfuscate(source_code)
RenamerObfuscate ==
    /\ renamer.pc = "constructed"
    /\ LET identifiers == ExtractIdentifiersFromAst(renamer.source_code)
           map == GenerateMappings(identifiers, renamer.hexdigest, renamer.hash_length)
       IN  IF identifiers = {}
           THEN renamer' = [renamer EXCEPT !.pc = "returned",
                                !.obfuscated_code = <<>>]
           ELSE renamer' = [renamer EXCEPT !.pc = "returned",
                                !.identifier_map = map,
                                !.obfuscated_code =
                                    ReplaceIdentifiers(renamer.source_code, map)]
    /\ UNCHANGED <<flatVars, cpmVars, editVars, astVars, demoVars>>
    /\ UNCHANGED OtherThanRenamer

NextRenamer == RenamerObfuscate

InitRenamer ==
    /\ \E source_code \in RenamerSources, hexdigest \in DigestTables,
          hash_length \in HashLengths :
          renamer = [pc |-> "constructed", source_code |-> source_code,
                     hexdigest |-> hexdigest, hash_length |-> hash_length,
                     identifier_map |-> <<>>, obfuscated_code |-> <<>>]
    /\ statements = <<>> /\ arg = 0 /\ FlatIdle /\ CpmIdle /\ EditIdle /\ AstIdle
    /\ DemoIdle /\ RenamerAlone

SpecRenamer == InitRenamer /\ [][NextRenamer]_vars

Injective(f) ==
    \A a \in DOMAIN f, b \in DOMAIN f : a # b => f[a] # f[b]

\* C14: after VariableRenamer.obfuscate has returned, the identifier map is
\* injective: two distinct original identifiers never share one
\* prefix+truncated-hash name (a collision would have been a reported failure,
\* not a return).
C14_IdentifierMapInjective ==
    renamer.pc = "returned" => Injective(renamer.identifier_map)

-----------------------------------------------------------------------------
\* Two run_demo calls side by side (demo.py): each has its own locals
\* (current_source, current_ast_path, step_counter); the step files live at
\* paths built from the step number alone, under the directory 'test'.

NumPasses == 2

Instances == 1..2

StepNumbers == 0..NumPasses

NoWriter == 0

\* what a pass and the next_step after it can do
StepOutcomes == {"unchanged", "regenerated", "not_regenerated"}

\* _regenerate_ast_from_source: the source snapshot is written before the
\* compile, the AST file only when the compile succeeded
RegenerateAstFromSource(files, i, k, ok) ==
    [files EXCEPT !.step_source[k] = i,
                  !.step_ast[k] = IF ok THEN i ELSE @]

PipelineFiles == [step_source |-> pipelines.step_source,
                  step_ast |-> pipelines.step_ast]

WithFiles(p, files) ==
    [p EXCEPT !.step_source = files.step_source, !.step_ast = files.step_ast]

\* run_demo up to the first pass: install_solc/set_solc_version, then
\* _ensure_initial_ast on test/test_step0.sol and test/test_ast_step0.json
StartRun(i) ==
    /\ pipelines.pc = "running"
    /\ pipelines.inst[i].pc = "start"
    /\ \E ok \in BOOLEAN :
         pipelines' =
            [WithFiles(pipelines, RegenerateAstFromSource(PipelineFiles, i, 0, ok))
                EXCEPT !.installed = TRUE,
                       !.inst[i].pc = "passes",
                       !.inst[i].current_ast_path = 0,
                       !.inst[i].step_counter = 0]
    /\ UNCHANGED <<flatVars, cpmVars, editVars, astVars, demoVars>>
    /\ UNCHANGED OtherThanPipelines

\* one pass called with (current_source, current_ast_path): it opens the AST
\* file at current_ast_path; when it changed the source, next_step follows
RunPass(i) ==
    /\ pipelines.pc = "running"
    /\ pipelines.inst[i].pc = "passes"
    /\ pipelines.inst[i].passes_run < NumPasses
    /\ \E outcome \in StepOutcomes :
         LET me == pipelines.inst[i]
             k == me.step_counter + 1
             read == pipelines.step_ast[me.current_ast_path]
             files == IF outcome = "unchanged" THEN PipelineFiles
                      ELSE RegenerateAstFromSource(PipelineFiles, i, k,
                                                   outcome = "regenerated")
         IN  pipelines' =
                [WithFiles(pipelines, files)
                    EXCEPT !.inst[i].passes_run = @ + 1,
                           !.inst[i].ast_read_from = read,
                           !.inst[i].step_counter =
                               IF outcome = "unchanged" THEN @ ELSE k,
                           !.inst[i].current_ast_path =
                               IF outcome = "regenerated" THEN k ELSE @]
    /\ UNCHANGED <<flatVars, cpmVars, editVars, astVars, demoVars>>
    /\ UNCHANGED OtherThanPipelines

\* the output file of the call is written (each call has its own output_file)
FinishRun(i) ==
    /\ pipelines.pc = "running"
    /\ pipelines.inst[i].pc = "passes"
    /\ pipelines.inst[i].passes_run = NumPasses
    /\ pipelines' = [pipelines EXCEPT !.inst[i].pc = "done"]
    /\ UNCHANGED <<flatVars, cpmVars, editVars, astVars, demoVars>>
    /\ UNCHANGED OtherThanPipelines

NextPipelines == \E i \in Instances : StartRun(i) \/ RunPass(i) \/ FinishRun(i)

InitPipelines ==
    /\ pipelines = [pc |-> "running", installed |-> FALSE,
                    inst |-> [i \in Instances |->
                                [pc |-> "start", step_counter |-> 0,
                                 current_ast_path |-> 0, passes_run |-> 0,
                                 ast_read_from |-> NoWriter]],
                    step_source |-> [k \in StepNumbers |-> NoWriter],
                    step_ast |-> [k \in StepNumbers |-> NoWriter]]
    /\ statements = <<>> /\ arg = 0 /\ FlatIdle /\ CpmIdle /\ EditIdle /\ AstIdle
    /\ DemoIdle /\ PipelinesAlone

SpecPipelines == InitPipelines /\ [][NextPipelines]_vars

\* C15: under every interleaving of the steps of two pipeline instances, no
\* pass of one instance reads a step AST file (or step source file) written
\* by the other instance.
C15_NoForeignStepFileRead ==
    pipelines.pc = "running" =>
        \A i \in Instances :
            pipelines.inst[i].ast_read_from \in {NoWriter, i}

-----------------------------------------------------------------------------
\* Boolean disguise (biAn-clone/src/obfuscator/data-flow/boolean_obfuscator.py):
\* the expressions of _make_true_variant and _make_false_variant. The numbers
\* in braces are computed by Python when the string is built; the operators
\* outside the braces are evaluated by Solidity on integer literals.

\* secrets.randbelow(8) + 1, randbelow(12) + 1, randbelow(20) + 1
R1 == 1..8
R2 == 1..12
R3 == 1..20

\* secrets.randbelow(12)
Picks == 0..11

RECURSIVE BitAnd(_, _)
BitAnd(a, b) ==
    IF a = 0 \/ b = 0 THEN 0
    ELSE ((a % 2) * (b % 2)) + 2 * BitAnd(a \div 2, b \div 2)

RECURSIVE BitOr(_, _)
BitOr(a, b) ==
    IF a = 0 THEN b
    ELSE IF b = 0 THEN a
    ELSE (IF (a % 2) + (b % 2) > 0 THEN 1 ELSE 0) + 2 * BitOr(a \div 2, b \div 2)

Shl(a, k) == a * Pow2(k)

Shr(a, k) == a \div Pow2(k)

\* the operands each pick of _make_true_variant draws, as <<a, b, c>>
\* (0 where the pick draws none)
TrueOperands(pick) ==
    CASE pick = 0 -> {<<a, b, 0>> : a \in R1, b \in R2}
      [] pick = 1 -> {<<a, b, 0>> : a \in R2, b \in R1}
      [] pick = 2 -> {<<a, a + 1, 0>> : a \in R1}
      [] pick = 3 -> {<<a, b, 0>> : a \in R3, b \in R2}
      [] pick = 4 -> {<<a, b, c>> : a \in R1, b \in R2, c \in R3}
      [] pick = 5 -> {<<a, b, 0>> : a \in R2, b \in R1}
      [] pick = 6 -> {<<a, b + 1, 0>> : a \in R2, b \in R2}
      [] pick = 7 -> {<<a, b, 0>> : a \in R3, b \in R1}
      [] pick = 8 -> {<<a, b, 0>> : a \in R2, b \in R1}
      [] pick = 9 -> {<<a, b, c + 2>> : a \in R1, b \in R2, c \in R1}
      [] pick = 10 -> {<<a, b, 0>> : a \in R3, b \in R2}
      [] OTHER -> {<<a, b, 0>> : a \in R1, b \in R2}

\* ((((a + b) == {a + b}) && ((a * b) >= {a * b})) || ((a % b) < b))
Epic(a, b) ==
    (((a + b) = (a + b)) /\ ((a * b) >= (a * b))) \/ ((a % b) < b)

\* the value of the expression _make_true_variant returns
TrueVariantValue(pick, a, b, c) ==
    CASE pick = 0 -> Epic(a, b)
      [] pick = 1 -> (((a - b) = (a - b)) /\ (((a % b) + b) > (a - b)))
                     \/ (((a * b) \div b) = a)
      [] pick = 2 -> ((Shr(Shl(a, 1), 1) = a) /\ (BitAnd(a, a) = a))
                     \/ (BitOr(a, b) >= b)
      [] pick = 3 -> (((a * b) % b) = 0)
                     /\ (((a + b) = (a + b)) \/ (Xor(a, a) = 0))
      [] pick = 4 -> ((((a + b) = (a + b)) /\ (((b * c) - b) >= (b * c - b)))
                      \/ ((c % a) < a))
                     /\ (BitAnd(a, a) = a)
      [] pick = 5 -> Epic(a, b) \/ (BitAnd(b, b) = b)
      [] pick = 6 -> Epic(a, b) \/ Epic(b, a)
      [] pick = 7 -> Epic(a, b) /\ ((a + b - b) = a)
      [] pick = 8 -> (((a % b) = 0) \/ (Shr(Shl(a, 1), 1) = a))
                     /\ ((a + b) = (a + b))
      [] pick = 9 -> (((a + b) = (a + b)) /\ ((b * c) >= (b * c)))
                     \/ ((c % a) < a)
      [] pick = 10 -> (Xor(a, a) = 0) \/ ((a + b) = (a + b))
      [] OTHER -> Epic(a, b)

\* every value _make_true_variant can return (for the nested call of
\* _make_false_variant, pick 4)
TrueVariantValues ==
    UNION {{TrueVariantValue(pick, t[1], t[2], t[3]) : t \in TrueOperands(pick)} :
              pick \in Picks}

\* the operands each pick of _make_false_variant draws
FalseOperands(pick) ==
    CASE pick = 0 -> {<<a, 0, 0>> : a \in R2}
      [] pick = 1 -> {<<a, b, 0>> : a \in R1, b \in R2}
      [] pick = 2 -> {<<a, b, 0>> : a \in R3, b \in R2}
      [] pick = 3 -> {<<a, b, 0>> : a \in R2, b \in R1}
      [] pick = 4 -> {<<a, b, 0>> : a \in R1, b \in R2}
      [] pick = 5 -> {<<a, 0, 0>> : a \in R3}
      [] pick = 6 -> {<<a, b + 1, 0>> : a \in R2, b \in R2}
      [] pick = 7 -> {<<a, b, c>> : a \in R1, b \in R2, c \in R3}
      [] pick = 8 -> {<<a, 0, 0>> : a \in R2}
      [] pick = 9 -> {<<a, b + 1, 0>> : a \in R1, b \in R1}
      [] pick = 10 -> {<<a, b, 0>> : a \in R2, b \in R3}
      [] OTHER -> {<<a, b, 0>> : a \in R1, b \in R2}

\* the value of the expression _make_false_variant returns; true_right is the
\* value of the nested true variant of pick 4
FalseVariantValue(pick, a, b, c, true_right) ==
    CASE pick = 0 -> ((a + 1) = a) /\ (((a * 2) \div 2) = a)
      [] pick = 1 -> (((a + b) = (a + b + 1)) /\ ((a * b) >= (a * b + 1)))
                     \/ ((a % b) > b)
      [] pick = 2 -> Shr(Shl(a, 1), 1) = (a + 1)
      [] pick = 3 -> ((a * b) % b) = 1
      [] pick = 4 -> ((a + 1) = a) /\ true_right
      [] pick = 5 -> (((a * a) + 1) = (a * a)) \/ (Xor(a, a) = 1)
      [] pick = 6 -> ((((a + b) = (a + b + 2)) /\ ((a * b) >= (a * b + 3)))
                      \/ ((a % b) > b))
                     /\ ((((b + a) = (b + a + 1)) /\ ((b * a) >= (b * a + 1)))
                         \/ ((b % a) > a))
      [] pick = 7 -> (BitAnd(a, a) = (a + 1)) \/ ((b + c) = (b + c + 1))
      [] pick = 8 -> ((a % (a + 1)) = a) \/ ((a + 1) = a)
      [] pick = 9 -> ((a * b) = (a * b + 1)) /\ (BitAnd(b, b) = b)
      [] pick = 10 -> (a - b) = (a - b + 1)
      [] OTHER -> (((a * b) + 1) = (a * b)) \/ ((a + b) = (a + b + 2))

\* _make_true_variant(), called for the literal `true`
MakeTrueVariant ==
    /\ boolean_expr.pc = "literal"
    /\ boolean_expr.literal = TRUE
    /\ \E pick \in Picks :
         \E t \in TrueOperands(pick) :
            boolean_expr' = [boolean_expr EXCEPT
                !.pc = "made", !.pick = pick, !.operands = t,
                !.value = TrueVariantValue(pick, t[1], t[2], t[3])]
    /\ UNCHANGED <<flatVars, cpmVars, editVars, astVars, demoVars>>
    /\ UNCHANGED OtherThanBooleanExpr

\* _make_false_variant(), called for the literal `false`
MakeFalseVariant ==
    /\ boolean_expr.pc = "literal"
    /\ boolean_expr.literal = FALSE
    /\ \E pick \in Picks, true_right \in TrueVariantValues :
         \E t \in FalseOperands(pick) :
            boolean_expr' = [boolean_expr EXCEPT
                !.pc = "made", !.pick = pick, !.operands = t,
                !.value = FalseVariantValue(pick, t[1], t[2], t[3], true_right)]
    /\ UNCHANGED <<flatVars, cpmVars, editVars, astVars, demoVars>>
    /\ UNCHANGED OtherThanBooleanExpr

NextBooleanExpr == MakeTrueVariant \/ MakeFalseVariant

InitBooleanExpr ==
    /\ \E literal \in BOOLEAN :
          boolean_expr = [pc |-> "literal", literal |-> literal, pick |-> 0,
                          operands |-> <<0, 0, 0>>, value |-> literal]
    /\ statements = <<>> /\ arg = 0 /\ FlatIdle /\ CpmIdle /\ EditIdle /\ AstIdle
    /\ DemoIdle /\ BooleanExprAlone

SpecBooleanExpr == InitBooleanExpr /\ [][NextBooleanExpr]_vars

\* C16: for every variant index and every operand the generators can draw,
\* the expression of _make_true_variant evaluates to true and the expression
\* of _make_false_variant evaluates to false.
C16_VariantKeepsLiteralValue ==
    boolean_expr.pc = "made" => boolean_expr.value = boolean_expr.literal

-----------------------------------------------------------------------------
\* OpaquePredicateInserter.insert_opaque_predicates, after the AST was
\* obtained: the conditions are rewritten, `pure` is replaced by `view`, and
\* the seed state variable and the helper are inserted where the regular
\* expression  contract\s+\w+.*\{  first matches. The source is a sequence of
\* tokens; the fields `contract`, `fn` and `role` say where a token of the
\* original source belongs and are not looked at by the pass.

MaxContracts == 2
MaxMembers == 1

\* the declared mutability of a function: `pure`, or one without that word
Mutabilities == {"pure", "nonpayable"}

\* a function: its declared mutability and whether its body holds an `if`
FunctionShapes == [mut : Mutabilities, has_if : BOOLEAN]

ContractShapes == UNION {[1..n -> FunctionShapes] : n \in 0..MaxMembers}

SourceShapes == UNION {[1..n -> ContractShapes] : n \in 1..MaxContracts}

\* where the line breaks are: every header on a line of its own; the
\* contract header and the first function header on one line; the whole
\* source on one line; the contract's brace on the line after its header
Layouts == {"multi_line", "header_shared", "one_line", "brace_next_line"}

Tok(kind, ci, fi, role, mut) ==
    [kind |-> kind, contract |-> ci, fn |-> fi, role |-> role, mut |-> mut,
     rewritten |-> FALSE]

Newline == Tok("nl", 0, 0, "none", "none")

Sep(layout) == IF layout = "one_line" THEN <<>> ELSE <<Newline>>

RenderFunction(f, ci, fi, layout) ==
    <<Tok("function", ci, fi, "header", f.mut), Tok("{", ci, fi, "function", "none")>>
    \o Sep(layout)
    \o (IF f.has_if
        THEN <<Tok("if", ci, fi, "condition", "none"), Tok("{", ci, fi, "if", "none")>>
             \o Sep(layout) \o <<Tok("}", ci, fi, "if", "none")>> \o Sep(layout)
        ELSE <<>>)
    \o <<Tok("}", ci, fi, "function", "none")>> \o Sep(layout)

RECURSIVE RenderMembers(_, _, _, _)
RenderMembers(c, ci, fi, layout) ==
    IF fi > Len(c) THEN <<>>
    ELSE RenderFunction(c[fi], ci, fi, layout) \o RenderMembers(c, ci, fi + 1, layout)

RenderContract(c, ci, layout) ==
    <<Tok("contract", ci, 0, "header", "none")>>
    \o (IF layout = "brace_next_line" THEN <<Newline>> ELSE <<>>)
    \o <<Tok("{", ci, 0, "contract", "none")>>
    \o (IF layout \in {"one_line", "header_shared"} THEN <<>> ELSE <<Newline>>)
    \o RenderMembers(c, ci, 1, layout)
    \o <<Tok("}", ci, 0, "contract", "none")>> \o Sep(layout)

RECURSIVE RenderSource(_, _, _)
RenderSource(shape, ci, layout) ==
    IF ci > Len(shape) THEN <<>>
    ELSE RenderContract(shape[ci], ci, layout) \o RenderSource(shape, ci + 1, layout)

\* the loop over parsed_points: every if condition becomes
\* (cond) && helper(seed) ...
RewriteConditions(tokens) ==
    [k \in 1..Len(tokens) |->
        IF tokens[k].kind = "if" THEN [tokens[k] EXCEPT !.rewritten = TRUE]
        ELSE tokens[k]]

InsertedCount(tokens) ==
    Cardinality({k \in 1..Len(tokens) : tokens[k].kind = "if"})

\* re.sub(r'\bpure\b', 'view', source_code_mod)
PureToView(tokens) ==
    [k \in 1..Len(tokens) |->
        IF tokens[k].mut = "pure" THEN [tokens[k] EXCEPT !.mut = "view"]
        ELSE tokens[k]]

\* the `{` tokens a match that starts at the `contract` token i can end at:
\* `.` does not match a line break
BracesOnLine(tokens, i) ==
    {j \in (i + 1)..Len(tokens) :
        /\ tokens[j].kind = "{"
        /\ \A k \in i..j : tokens[k].kind # "nl"}

\* re.search(r'contract\s+\w+.*\{', ...).end(): the leftmost start that
\* matches, and from it the longest `.*`; 0 when nothing matches
MatchEndOfContract(tokens) ==
    LET starts == {i \in 1..Len(tokens) :
                      tokens[i].kind = "contract" /\ BracesOnLine(tokens, i) # {}}
    IN  IF starts = {} THEN 0
        ELSE LET i == CHOOSE x \in starts : \A y \in starts : x <= y
             IN  CHOOSE j \in BracesOnLine(tokens, i) :
                    \A k \in BracesOnLine(tokens, i) : k <= j

\* "\n" + get_state_variable_declaration() + "\n" + get_helper_function_code() + "\n"
Components ==
    <<Newline, Tok("state_var", 0, 0, "injected", "none"), Newline,
      Tok("helper", 0, 0, "injected", "pure"), Newline>>

InjectComponents(tokens) ==
    LET insert_pos == MatchEndOfContract(tokens)
    IN  IF insert_pos = 0 THEN tokens
        ELSE SubSeq(tokens, 1, insert_pos) \o Components
             \o SubSeq(tokens, insert_pos + 1, Len(tokens))

\* the helper is inserted first and `pure` replaced afterwards
ModifySource_InjectFirst(tokens) ==
    PureToView(InjectComponents(RewriteConditions(tokens)))

\* steps 4 to 6 of insert_opaque_predicates
ModifySource(tokens) ==
    InjectComponents(PureToView(RewriteConditions(tokens)))

\* insert_opaque_predicates(source_code) with an AST at hand
OpaqueInsert ==
    /\ opaque.pc = "parsed"
    /\ opaque' = [opaque EXCEPT
            !.pc = "returned",
            !.inserted_count = InsertedCount(opaque.source_code),
            !.result = IF InsertedCount(opaque.source_code) = 0
                       THEN opaque.source_code
                       ELSE ModifySource(opaque.source_code)]
    /\ UNCHANGED <<flatVars, cpmVars, editVars, astVars, demoVars>>
    /\ UNCHANGED OtherThanOpaque

NextOpaque == OpaqueInsert

InitOpaque ==
    /\ \E shape \in SourceShapes, layout \in Layouts :
          opaque = [pc |-> "parsed", layout |-> layout,
                    source_code |-> RenderSource(shape, 1, layout),
                    inserted_count |-> 0, result |-> <<>>]
    /\ statements = <<>> /\ arg = 0 /\ FlatIdle /\ CpmIdle /\ EditIdle /\ AstIdle
    /\ DemoIdle /\ OpaqueAlone

SpecOpaque == InitOpaque /\ [][NextOpaque]_vars

\* the contracts of a source that hold a condition
ContractsWithCondition(tokens) ==
    {tokens[k].contract : k \in {x \in 1..Len(tokens) : tokens[x].kind = "if"}}

\* the contract whose text position p of the output lies in: that of the
\* nearest token of the original source in front of p
EnclosingContract(out, p) ==
    LET before == {q \in 1..(p - 1) : out[q].contract # 0}
    IN  IF before = {} THEN 0
        ELSE out[CHOOSE q \in before : \A r \in before : r <= q].contract

HelpersIn(out, ci) ==
    {p \in 1..Len(out) : out[p].kind = "helper" /\ EnclosingContract(out, p) = ci}

\* the state variable and the helper follow the opening brace of contract ci
InjectedAfterOpeningBrace(out, ci) ==
    \E j \in 1..Len(out) :
        /\ out[j].kind = "{" /\ out[j].role = "contract" /\ out[j].contract = ci
        /\ j + Len(Components) <= Len(out)
        /\ SubSeq(out, j + 1, j + Len(Components)) = Components

\* C18: whenever at least one condition was rewritten, every contract that
\* holds a rewritten condition has the state variable and the helper exactly
\* once, immediately after its opening brace.
C18_HelperOncePerContract ==
    (opaque.pc = "returned" /\ opaque.inserted_count > 0) =>
        \A ci \in ContractsWithCondition(opaque.source_code) :
            /\ InjectedAfterOpeningBrace(opaque.result, ci)
            /\ Cardinality(HelpersIn(opaque.result, ci)) = 1

\* the functions of the original source that were declared pure and hold a
\* rewritten condition
PureEnclosing(tokens) ==
    {k \in 1..Len(tokens) :
        /\ tokens[k].kind = "function" /\ tokens[k].mut = "pure"
        /\ \E x \in 1..Len(tokens) :
              /\ tokens[x].kind = "if"
              /\ tokens[x].contract = tokens[k].contract
              /\ tokens[x].fn = tokens[k].fn}

\* the header of the same function in the output
HeaderIn(out, t) ==
    {p \in 1..Len(out) :
        out[p].kind = "function" /\ out[p].contract = t.contract /\ out[p].fn = t.fn}

\* C19: after at least one condition was rewritten, every function that
\* encloses a rewritten condition and was declared pure is declared view in
\* the output, and the injected helper is declared pure.
C19_PureWidenedHelperPure ==
    (opaque.pc = "returned" /\ opaque.inserted_count > 0) =>
        /\ \A k \in PureEnclosing(opaque.source_code) :
              /\ HeaderIn(opaque.result, opaque.source_code[k]) # {}
              /\ \A p \in HeaderIn(opaque.result, opaque.source_code[k]) :
                    opaque.result[p].mut = "view"
        /\ \A p \in 1..Len(opaque.result) :
              opaque.result[p].kind = "helper" => opaque.result[p].mut = "pure"

\* a pure function with a rewritten condition, and the helper injected
C19_Witness ==
    /\ opaque.pc = "returned"
    /\ opaque.inserted_count > 0
    /\ PureEnclosing(opaque.source_code) # {}
    /\ \E p \in 1..Len(opaque.result) : opaque.result[p].kind = "helper"
    /\ \E p \in 1..Len(opaque.result) :
          opaque.result[p].kind = "if" /\ opaque.result[p].rewritten

-----------------------------------------------------------------------------
\* Byte-range edits on a source that holds multi-byte UTF-8 characters:
\* split_booleans_file (boolean_obfuscator.py 291-331) and the replacement
\* loop of insert_opaque_predicates (opaque_predicate_obfuscator.py 184-201).
\* The offsets come from AST nodes; compile_files returns the AST of every
\* source unit and the file index of `src` is not looked at, and the opaque
\* pass may be handed an AST of an earlier text, so an offset need not be a
\* character boundary of the bytes at hand.

MaxChars == 2
MaxOps == 2

\* "t" stands for the text of a boolean literal, "x" for any other ASCII
\* text, "e" for a character of two bytes
Chars == {"t", "x", "e"}

CharTexts == UNION {[1..n -> Chars] : n \in 1..MaxChars}

\* str.encode('utf-8')
RECURSIVE Utf8Encode(_)
Utf8Encode(text) ==
    IF text = <<>> THEN <<>>
    ELSE (IF Head(text) = "e" THEN <<"c3", "a9">> ELSE <<Head(text)>>)
         \o Utf8Encode(Tail(text))

\* bytes.decode('utf-8') raises unless every lead byte has its continuation
\* byte and every continuation byte its lead byte
WellFormed(b) ==
    \A k \in 1..Len(b) :
        /\ b[k] = "c3" => (k < Len(b) /\ b[k + 1] = "a9")
        /\ b[k] = "a9" => (k > 1 /\ b[k - 1] = "c3")

\* bytes.decode('utf-8', errors='replace')
RECURSIVE DecodeReplace(_)
DecodeReplace(b) ==
    IF b = <<>> THEN <<>>
    ELSE IF Len(b) >= 2 /\ b[1] = "c3" /\ b[2] = "a9"
         THEN <<"e">> \o DecodeReplace(SubSeq(b, 3, Len(b)))
         ELSE IF b[1] \in {"c3", "a9"}
              THEN <<"fffd">> \o DecodeReplace(Tail(b))
              ELSE <<b[1]>> \o DecodeReplace(Tail(b))

\* the nodes the walks return: `src` as (start, length) and the node's value
AstNodes ==
    [start : 0..(2 * MaxChars - 1), length : 0..2, value : {"true", "none"}]

\* the offset lies between two characters of the bytes
OnCharBoundary(b, offset) ==
    offset >= Len(b) \/ b[offset + 1] # "a9"

\* _make_true_variant(): its bytes are ASCII
VariantBytes == <<"(", ")">>

\* boolean_obfuscator.py 292-316: one candidate
CollectBoolNode(reps, c) ==
    LET start == c.start
        end == c.start + c.length
        original_slice_bytes == Slice(src_bytes, start, end)
        original_slice_str == DecodeReplace(original_slice_bytes)
    IN  IF start < 0 \/ end > Len(src_bytes) \/ start >= end THEN reps
        ELSE IF original_slice_str # <<"t">> /\ c.value # "true" THEN reps
        ELSE Append(reps, [start |-> start, end |-> end,
                           replacement_bytes |-> VariantBytes])

RECURSIVE ApplyAll(_, _)
ApplyAll(b, ops) ==
    IF ops = <<>> THEN b
    ELSE ApplyAll(SliceAssign(b, Head(ops)), Tail(ops))

\* the candidate loop of split_booleans_file, one candidate at a time
CollectBoolNodes ==
    /\ epc = "bool_collect"
    /\ Len(replacements) < MaxOps
    /\ \E c \in AstNodes : replacements' = CollectBoolNode(replacements, c)
    /\ UNCHANGED <<src_bytes, non_overlap, pending, new_bytes, epc>>
    /\ UNCHANGED <<flatVars, cpmVars, astVars, demoVars, passVars>>

\* lines 318-331: the sweep and the application of the kept replacements
ApplyBoolEdits ==
    /\ epc = "bool_collect"
    /\ non_overlap' = NonOverlap(replacements)
    /\ new_bytes' = ApplyAll(src_bytes, ApplicationOrder(NonOverlap(replacements)))
    /\ epc' = "bool_done"
    /\ UNCHANGED <<src_bytes, replacements, pending>>
    /\ UNCHANGED <<flatVars, cpmVars, astVars, demoVars, passVars>>

\* _find_injection_points and _parse_src_to_range: one condition node
FindInjectionPoint ==
    /\ epc = "points"
    /\ Len(replacements) < MaxOps
    /\ \E c \in AstNodes :
          replacements' = Append(replacements,
              [start |-> c.start, end |-> c.start + c.length,
               replacement_bytes |->
                   <<"(">> \o Slice(src_bytes, c.start, c.start + c.length)
                   \o <<")", "&">>])
    /\ UNCHANGED <<src_bytes, non_overlap, pending, new_bytes, epc>>
    /\ UNCHANGED <<flatVars, cpmVars, astVars, demoVars, passVars>>

\* lines 184-199: the loop over the sorted points; .decode('utf-8') of a
\* slice that is not well formed raises and nothing catches it in the loop
RECURSIVE ReplaceLoop(_, _)
ReplaceLoop(points, acc) ==
    IF points = <<>> \/ acc.raised THEN acc
    ELSE LET p == Head(points)
         IN  IF p.start < 0 \/ p.end > Len(src_bytes)
             THEN ReplaceLoop(Tail(points), acc)
             ELSE IF ~WellFormed(Slice(src_bytes, p.start, p.end))
                  THEN [acc EXCEPT !.raised = TRUE]
                  ELSE ReplaceLoop(Tail(points),
                          [acc EXCEPT !.new_bytes = SliceAssign(@, p),
                                      !.applied = Append(@, p)])

\* lines 165-201 of insert_opaque_predicates
ReplaceConditions ==
    /\ epc = "points"
    /\ LET r == ReplaceLoop(SortedByStartDesc(replacements),
                            [raised |-> FALSE, new_bytes |-> src_bytes,
                             applied |-> <<>>])
       IN  /\ non_overlap' = r.applied
           /\ new_bytes' = r.new_bytes
           /\ epc' = IF r.raised \/ ~WellFormed(r.new_bytes)
                     THEN "raised" ELSE "replaced"
    /\ UNCHANGED <<src_bytes, replacements, pending>>
    /\ UNCHANGED <<flatVars, cpmVars, astVars, demoVars, passVars>>

NextCodepointEdit ==
    \/ CollectBoolNodes \/ ApplyBoolEdits
    \/ FindInjectionPoint \/ ReplaceConditions

InitCodepointEdit ==
    /\ \E text \in CharTexts : src_bytes = Utf8Encode(text)
    /\ replacements = <<>> /\ non_overlap = <<>>
    /\ pending = <<>> /\ new_bytes = <<>> /\ epc \in {"bool_collect", "points"}
    /\ statements = <<>> /\ arg = 0 /\ FlatIdle /\ CpmIdle /\ AstIdle /\ DemoIdle
    /\ PassIdle

SpecCodepointEdit == InitCodepointEdit /\ [][NextCodepointEdit]_vars

\* C20: an edit whose start or end lies inside a multi-byte character is
\* never applied to the buffer, and it does not make the pass fail: the pass
\* ends with the other edits applied.
C20_SplitCharacterEditDropped ==
    /\ epc \in {"bool_done", "replaced"} =>
          \A i \in 1..Len(non_overlap) :
              /\ OnCharBoundary(src_bytes, non_overlap[i].start)
              /\ OnCharBoundary(src_bytes, non_overlap[i].end)
    /\ epc # "raised"

-----------------------------------------------------------------------------
\* PreprocessingObfuscator.inline_functions (preprocessing_obfuscator.py
\* 255-375): the call sites of the inlinable functions are collected from the
\* AST, sorted by start descending, and each is replaced in modified_source at
\* the offsets its node had in the original source.

\* the `src` ranges FunctionCall nodes can have in the source
CallRanges ==
    { [start |-> st, end |-> en] : st \in 0..(BufLen - 1), en \in 1..BufLen }

\* two nodes of one AST: apart, or one inside the arguments of the other
Apart(x, y) == x.end <= y.start \/ y.end <= x.start

InsideArguments(inner, outer) ==
    outer.start < inner.start /\ inner.end < outer.end

FitsAst(sites, c) ==
    /\ c.start < c.end
    /\ \A k \in 1..Len(sites) :
          \/ Apart(sites[k], c)
          \/ InsideArguments(c, sites[k])
          \/ InsideArguments(sites[k], c)

\* _collect_call_sites: a FunctionCall whose callee is a target function is
\* appended, and the walk goes on into its children
CollectCallSite ==
    /\ epc = "call_sites"
    /\ Len(replacements) < MaxEdits
    /\ \E c \in CallRanges :
          /\ FitsAst(replacements, c)
          /\ replacements' = Append(replacements,
                [start |-> c.start, end |-> c.end,
                 replacement_bytes |-> ReplacementFor(Len(replacements) + 1)])
    /\ UNCHANGED <<src_bytes, non_overlap, pending, new_bytes, epc>>
    /\ UNCHANGED <<flatVars, cpmVars, astVars, demoVars, passVars>>

\* lines 282-373: call_sites.sort(reverse=True) and the replacement loop;
\* non_overlap holds the sites in the order they were applied
InlineFunctions ==
    /\ epc = "call_sites"
    /\ non_overlap' = SortedByStartDesc(replacements)
    /\ new_bytes' = ApplyAll(src_bytes, SortedByStartDesc(replacements))
    /\ epc' = "inlined"
    /\ UNCHANGED <<src_bytes, replacements, pending>>
    /\ UNCHANGED <<flatVars, cpmVars, astVars, demoVars, passVars>>

NextInline == CollectCallSite \/ InlineFunctions

InitInline ==
    /\ src_bytes = SourceBytes /\ replacements = <<>> /\ non_overlap = <<>>
    /\ pending = <<>> /\ new_bytes = <<>> /\ epc = "call_sites"
    /\ statements = <<>> /\ arg = 0 /\ FlatIdle /\ CpmIdle /\ AstIdle /\ DemoIdle
    /\ PassIdle

SpecInline == InitInline /\ [][NextInline]_vars

\* C21: the call-site ranges inline_functions applies to one buffer are
\* pairwise non-overlapping, also when a call to an inlinable function sits
\* inside an argument of another such call.
C21_CallSiteRangesDisjoint ==
    epc = "inlined" => PairwiseDisjoint(non_overlap)

-----------------------------------------------------------------------------
(***************************************************************************)
(* FlatteningObfuscator._create_basic_blocks over bodies that hold loops, *)
(* terminal statements and declarations                                    *)
(*                                                                         *)
(* flattening is [pc, body, blocks, hoisted_vars]: the top-level           *)
(* statements of one function body and what _create_basic_blocks returns   *)
(* for them.                                                               *)
(***************************************************************************)
LoopTypes == {"WhileStatement", "ForStatement", "DoWhileStatement"}

\* a loop statement; its body is part of its text
LoopStmt(id, nt) == Stmt(nt, id, "", "", Opaque(id), Opaque(id), <<>>, <<>>, FALSE)

\* the statement kinds of a body with loops, for the statement at position i
PartitionPool(i) ==
    LET id == i * 10
    IN  { ExprStmt(id),
          IfStmt(id, Opaque(id), <<ExprStmt(id + 1)>>),
          IfElseStmt(id, Opaque(id), <<ExprStmt(id + 1)>>, <<ExprStmt(id + 6)>>) }
        \cup { LoopStmt(id, nt) : nt \in LoopTypes }

RECURSIVE PartitionBodiesOfLen(_)
PartitionBodiesOfLen(n) ==
    IF n = 0 THEN { <<>> }
    ELSE { Append(s, x) : s \in PartitionBodiesOfLen(n - 1), x \in PartitionPool(n) }

PartitionBodies(longest) == UNION { PartitionBodiesOfLen(n) : n \in 0..longest }

\* lines 163-327: blocks, hoisted_vars = self._create_basic_blocks(...)
CreateBlocksOfBody ==
    /\ flattening.pc = "called"
    /\ LET r == CreateBasicBlocks(flattening.body)
       IN  flattening' = [flattening EXCEPT !.pc = "blocks",
                                            !.blocks = r.blocks,
                                            !.hoisted_vars = r.hoisted_vars]
    /\ UNCHANGED <<flatVars, cpmVars, editVars, astVars, demoVars>>
    /\ UNCHANGED OtherThanFlattening

NextPartition == CreateBlocksOfBody

InitPartition ==
    /\ \E b \in { x \in PartitionBodies(MaxStmts) : ~Skipped(x) } :
          flattening = [pc |-> "called", body |-> b, blocks |-> <<>>,
                        hoisted_vars |-> <<>>]
    /\ statements = <<>> /\ arg = 0 /\ FlatIdle /\ CpmIdle /\ EditIdle /\ AstIdle
    /\ DemoIdle /\ FlatteningAlone

SpecPartition == InitPartition /\ [][NextPartition]_vars

\* the maximal runs of consecutive non-branching top-level statements
RECURSIVE MaximalRuns(_, _, _)
MaximalRuns(stmts, i, run) ==
    IF i > Len(stmts) THEN (IF run = <<>> THEN <<>> ELSE <<run>>)
    ELSE IF stmts[i].nodeType \in BranchingTypes
         THEN (IF run = <<>> THEN <<>> ELSE <<run>>) \o MaximalRuns(stmts, i + 1, <<>>)
         ELSE MaximalRuns(stmts, i + 1, Append(run, stmts[i]))

\* the statements of a block that is made of top-level statements
StatementsOf(b) == [k \in 1..Len(b.content) |-> b.content[k].stmt]

\* a block that holds a top-level statement other than an if or a loop
IsTopLevelBlock(b) ==
    \E j \in 1..Len(b.content) :
       /\ b.content[j].line = "stmt"
       /\ b.content[j].stmt.nodeType \notin BranchingTypes
       /\ \E k \in 1..Len(flattening.body) : flattening.body[k].id = b.content[j].stmt.id

TopLevelBlocks ==
    LET idx == { k \in 1..Len(flattening.blocks) : IsTopLevelBlock(flattening.blocks[k]) }
        Nth[n \in 0..Cardinality(idx)] ==
            IF n = 0 THEN 0
            ELSE CHOOSE k \in idx : k > Nth[n - 1] /\ \A j \in idx : j > Nth[n - 1] => k <= j
    IN  [n \in 1..Cardinality(idx) |-> StatementsOf(flattening.blocks[Nth[n]])]

\* C22: every maximal run of consecutive non-branching top-level statements
\* is exactly one block, and every if and every loop construct (while, for,
\* do-while) forces a block boundary: no block holds a loop together with a
\* neighbouring statement.
C22_RunsAreBlocksLoopsBound ==
    flattening.pc = "blocks" =>
        /\ TopLevelBlocks = MaximalRuns(flattening.body, 1, <<>>)
        /\ \A k \in 1..Len(flattening.blocks) :
              \A j \in 1..Len(flattening.blocks[k].content) :
                 LET l == flattening.blocks[k].content[j]
                 IN  (l.line = "stmt" /\ l.stmt.nodeType \in BranchingTypes)
                        => Len(flattening.blocks[k].content) = 1

-----------------------------------------------------------------------------
(***************************************************************************)
(* Declaration hoisting (lines 247-296) over bodies of declarations of    *)
(* every type the default-value table distinguishes                        *)
(***************************************************************************)
HoistTypes ==
    {"bool", "uint256", "int8", "address", "address payable", "string", "bytes", "bytes32"}

\* the statement kinds of a body with declarations, for the statement at
\* position i; the variable declared at position i is named after i
HoistPool(i) ==
    LET id == i * 10
    IN  { ExprStmt(id),
          IfStmt(id, Opaque(id), <<ExprStmt(id + 1)>>),
          DeclStmt(id, "uint256", ToString(i), Opaque(id)) }
        \cup { DeclStmt(id, ty, ToString(i), NoExpr) : ty \in HoistTypes }

RECURSIVE HoistBodiesOfLen(_)
HoistBodiesOfLen(n) ==
    IF n = 0 THEN { <<>> }
    ELSE { Append(s, x) : s \in HoistBodiesOfLen(n - 1), x \in HoistPool(n) }

HoistBodies(longest) == UNION { HoistBodiesOfLen(n) : n \in 0..longest }

NextHoist == CreateBlocksOfBody

InitHoist ==
    /\ \E b \in { x \in HoistBodies(MaxStmts) : ~Skipped(x) } :
          flattening = [pc |-> "called", body |-> b, blocks |-> <<>>,
                        hoisted_vars |-> <<>>]
    /\ statements = <<>> /\ arg = 0 /\ FlatIdle /\ CpmIdle /\ EditIdle /\ AstIdle
    /\ DemoIdle /\ FlatteningAlone

SpecHoist == InitHoist /\ [][NextHoist]_vars

\* the zero value of a type, as Solidity defines it
ZeroValueOf(t) ==
    CASE t = "bool" -> "false"
      [] t \in {"uint256", "int8"} -> "0"
      [] t \in {"address", "address payable"} -> "address(0)"
      [] t \in {"string", "bytes", "bytes32"} -> "\"\""

\* the lines of the blocks that stand for top-level statements, in block order
RECURSIVE TopLevelLines(_, _)
TopLevelLines(bs, k) ==
    IF k > Len(bs) THEN <<>>
    ELSE SelectSeq(bs[k].content,
                   LAMBDA l : l.line = "stmt" /\ l.stmt.id % 10 = 0)
         \o TopLevelLines(bs, k + 1)

\* the top-level statements that are no if, in source order
NonIfStatements == SelectSeq(flattening.body, LAMBDA s : s.nodeType # "IfStatement")

DeclaredOnceAbove(s) ==
    /\ Cardinality({ k \in 1..Len(flattening.hoisted_vars) :
                        flattening.hoisted_vars[k].name = s.name }) = 1
    /\ \E k \in 1..Len(flattening.hoisted_vars) :
          flattening.hoisted_vars[k] = [typeName |-> s.typeName, name |-> s.name]

AssignedInPlace(s, l) ==
    l.stmt = IF s.expr.op # "none"
             THEN Assign(s.id, s.name, s.expr)
             ELSE Assign(s.id, s.name, DefaultText(ZeroValueOf(s.typeName)))

-----------------------------------------------------------------------------
(***************************************************************************)
(* Successors of blocks that end in return or revert (lines 183-187,      *)
(* 230-243, 311-325)                                                       *)
(***************************************************************************)
RevertStmt(id) == Stmt("RevertStatement", id, "", "", Opaque(id), NoExpr, <<>>, <<>>, FALSE)

\* the statement kinds of a body with terminal statements, for the
\* statement at position i
TerminalPool(i) ==
    LET id == i * 10
    IN  { ExprStmt(id),
          ReturnStmt(id, Opaque(id)),
          ReturnStmt(id, NoExpr),
          RevertStmt(id),
          IfStmt(id, Opaque(id), <<ExprStmt(id + 1)>>),
          IfStmt(id, Opaque(id), <<ReturnStmt(id + 1, Opaque(id + 1))>>),
          IfElseStmt(id, Opaque(id), <<ExprStmt(id + 1)>>, <<RevertStmt(id + 6)>>) }

RECURSIVE TerminalBodiesOfLen(_)
TerminalBodiesOfLen(n) ==
    IF n = 0 THEN { <<>> }
    ELSE { Append(s, x) : s \in TerminalBodiesOfLen(n - 1), x \in TerminalPool(n) }

TerminalBodies(longest) == UNION { TerminalBodiesOfLen(n) : n \in 0..longest }

NextTerminal == CreateBlocksOfBody

InitTerminal ==
    /\ \E b \in { x \in TerminalBodies(MaxStmts) : ~Skipped(x) } :
          flattening = [pc |-> "called", body |-> b, blocks |-> <<>>,
                        hoisted_vars |-> <<>>]
    /\ statements = <<>> /\ arg = 0 /\ FlatIdle /\ CpmIdle /\ EditIdle /\ AstIdle
    /\ DemoIdle /\ FlatteningAlone

SpecTerminal == InitTerminal /\ [][NextTerminal]_vars

EndsInReturnOrRevert(b) ==
    LET last == b.content[Len(b.content)]
    IN  last.line = "stmt" /\ last.stmt.nodeType \in {"Return", "RevertStatement"}

\* C24: every block whose last statement is a return or a revert has no
\* successor, be it the final block of the function or the true or false
\* branch block of an if.
C24_TerminalBlockHasNoSuccessor ==
    flattening.pc = "blocks" =>
        \A k \in 1..Len(flattening.blocks) :
           EndsInReturnOrRevert(flattening.blocks[k]) => flattening.blocks[k].next = NoNext

-----------------------------------------------------------------------------
(***************************************************************************)
(* The dispatcher under two presentation orders                            *)
(***************************************************************************)
\* the block an iteration runs when the arms are emitted in the given order
SelectedBlock(order) ==
    LET arms == DispatchArms(blocks, order)
        k == FirstMatchingArm(arms, state)
    IN  IF k = 0 THEN <<>> ELSE <<arms[k]>>

\* C25: the dispatcher behaves the same under any two presentation orders
\* of the same block list: block ids are pairwise distinct, so in every
\* iteration at most one arm's test `state == id` holds, and the block that
\* runs is the one with that id whatever the order of the arms.
C25_DispatchIndependentOfOrder ==
    (fpc = "loop" /\ state # 0) =>
        /\ \A i, j \in 1..Len(blocks) : blocks[i].id = blocks[j].id => i = j
        /\ Cardinality(MatchingArms(DispatchArms(blocks, presentation), state)) <= 1
        /\ \A order \in Shuffles(Len(blocks)) :
              /\ SelectedBlock(order) = SelectedBlock(presentation)
              /\ \A k \in 1..Len(SelectedBlock(order)) : SelectedBlock(order)[k].id = state

\* the arms are emitted last block first and the loop has reached a block
\* that is emitted before the block it came from
C25_Witness ==
    /\ fpc = "loop"
    /\ Len(blocks) >= 3
    /\ presentation = Reversed(Rotation(Len(blocks), 0))
    /\ state = 3
    /\ trace # <<>>
    /\ SelectedBlock(presentation) # <<>>

-----------------------------------------------------------------------------
(***************************************************************************)
(* scalar_splitter._collect_scalar_vars                                    *)
(*                                                                         *)
(* scalar_splitter is [pc, contract_known, nodes, vars_found]: the         *)
(* VariableDeclaration nodes of one contract in AST order, whether the     *)
(* contract is in contract_infos, and the ids of the selected variables.   *)
(* A type string and a name are sequences of tokens, so that startswith    *)
(* is the prefix test on sequences.                                        *)
(***************************************************************************)
MaxVarNodes == 1       \* VariableDeclaration nodes of the contract

\* _SUPPORTED_TYPES
SupportedTypes ==
    { <<"uint", "256">>, <<"uint">>, <<"bool">>, <<"address">>, <<"string">>, <<"bytes">> }

\* typeDescriptions.typeString of the declarations
TypeStrings ==
    { <<"uint", "256">>, <<"uint", "8">>, <<"bool">>, <<"address", " payable">>,
      <<"bytes", "32">>, <<"uint", "256", "[]">>,
      <<"mapping(", "address", " => ", "uint", "256", ")">>, <<"struct ", "C.S">> }

VarNodeNames == { <<"salary">>, <<"m_", "f0eb29">> }

VarNodes(id) ==
    [id : {id}, stateVariable : BOOLEAN, constant : BOOLEAN, typeString : TypeStrings,
     hasValue : BOOLEAN, name : VarNodeNames]

RECURSIVE VarNodeLists(_)
VarNodeLists(n) ==
    IF n = 0 THEN { <<>> }
    ELSE { Append(s, x) : s \in VarNodeLists(n - 1), x \in VarNodes(n) }

\* lines 106-129: the tests a VariableDeclaration node passes to be selected
IsCompatibleType(type_desc) == \E t \in SupportedTypes : IsPrefix(t, type_desc)

SelectsNode(node, contract_known) ==
    /\ contract_known
    /\ node.stateVariable /\ ~node.constant
    /\ IsCompatibleType(node.typeString)
    /\ ~node.hasValue
    /\ ~IsPrefix(<<"__scalar_">>, node.name) /\ ~IsPrefix(<<"m_">>, node.name)

\* lines 98-142
CollectScalarVars ==
    /\ scalar_splitter.pc = "called"
    /\ scalar_splitter' =
          [scalar_splitter EXCEPT
              !.pc = "collected",
              !.vars_found = { k \in 1..Len(scalar_splitter.nodes) :
                                  SelectsNode(scalar_splitter.nodes[k],
                                              scalar_splitter.contract_known) }]
    /\ UNCHANGED <<flatVars, cpmVars, editVars, astVars, demoVars>>
    /\ UNCHANGED OtherThanScalarSplitter

NextScalarVars == CollectScalarVars

InitScalarVars ==
    /\ \E ns \in UNION { VarNodeLists(n) : n \in 0..MaxVarNodes }, known \in BOOLEAN :
          scalar_splitter = [pc |-> "called", contract_known |-> known, nodes |-> ns,
                             vars_found |-> {}]
    /\ statements = <<>> /\ arg = 0 /\ FlatIdle /\ CpmIdle /\ EditIdle /\ AstIdle
    /\ DemoIdle /\ ScalarSplitterAlone

SpecScalarVars == InitScalarVars /\ [][NextScalarVars]_vars

\* an array, a mapping or a struct
IsCompositeType(t) == t[Len(t)] = "[]" \/ t[1] \in {"mapping(", "struct "}

\* C26: a selected variable is a state variable, is no constant, has no
\* inline value and is of no composite type (array, mapping, struct).
C26_OnlyUninitializedPrimitives ==
    scalar_splitter.pc = "collected" =>
        \A k \in scalar_splitter.vars_found :
           LET node == scalar_splitter.nodes[k]
           IN  /\ node.stateVariable /\ ~node.constant /\ ~node.hasValue
               /\ ~IsCompositeType(node.typeString)

-----------------------------------------------------------------------------
(***************************************************************************)
(* interger_obfuscator.obfuscate_integers_preserve_pragma                  *)
(*                                                                         *)
(* A source text is a sequence of items [kind, c]: a character, or the     *)
(* text one match of _SPDX_PATTERN or _PRAGMA_PATTERN covers.  The         *)
(* placeholder key and the disguise expression are items of their own.     *)
(* integer_expr is [pc, source, body, placeholders, replaced, final].      *)
(***************************************************************************)
MaxSrcLen == 3         \* items of a source text handed to the integer pass

Char(c) == [kind |-> "char", c |-> c]
Spdx == [kind |-> "spdx", c |-> "// SPDX-License-Identifier: MIT"]
Pragma == [kind |-> "pragma", c |-> "pragma solidity ^0.8.0;"]
Placeholder(k) == [kind |-> "placeholder", c |-> ToString(k)]
Disguise(digits) == [kind |-> "expr", c |-> ToString(digits)]

SrcItems == { Char("1"), Char("."), Char("a"), Char("\n"), Char("\""), Spdx, Pragma }

\* both directive patterns start with ^: a match begins at the start of the
\* text or after a newline
RECURSIVE IntSourcesOfLen(_)
IntSourcesOfLen(n) ==
    IF n = 0 THEN { <<>> }
    ELSE UNION { { Append(s, x) :
                      x \in { y \in SrcItems : y.kind \in {"spdx", "pragma"} =>
                                 (n = 1 \/ s[n - 1] = Char("\n")) } } :
                 s \in IntSourcesOfLen(n - 1) }

IntSources(longest) == UNION { IntSourcesOfLen(n) : n \in 0..longest }

\* _extract_placeholders: the SPDX matches get the first keys, the pragma
\* matches the next ones
KeyOf(s, i) ==
    IF s[i].kind = "spdx"
    THEN Cardinality({ j \in 1..(i - 1) : s[j].kind = "spdx" })
    ELSE Cardinality({ j \in 1..Len(s) : s[j].kind = "spdx" })
         + Cardinality({ j \in 1..(i - 1) : s[j].kind = "pragma" })

ExtractPlaceholders(s) ==
    [body |-> [i \in 1..Len(s) |->
                  IF s[i].kind \in {"spdx", "pragma"} THEN Placeholder(KeyOf(s, i))
                  ELSE s[i]],
     placeholders |-> { <<KeyOf(s, i), s[i]>> :
                           i \in { j \in 1..Len(s) : s[j].kind \in {"spdx", "pragma"} } }]

\* \w and \d of the token pattern; a placeholder key is made of word characters
IsWordItem(x) == x.kind = "placeholder" \/ (x.kind = "char" /\ x.c \in {"1", "a"})
IsDigitItem(x) == x.kind = "char" /\ x.c = "1"

\* the end of the digit run that starts at i
RECURSIVE DigitRunEnd(_, _)
DigitRunEnd(t, i) ==
    IF i < Len(t) /\ IsDigitItem(t[i + 1]) THEN DigitRunEnd(t, i + 1) ELSE i

\* the closing quote of the string literal that opens at i (0: none)
ClosingQuote(t, i) ==
    LET qs == { j \in (i + 1)..Len(t) : t[j] = Char("\"") }
    IN  IF qs = {} THEN 0 ELSE CHOOSE j \in qs : \A k \in qs : j <= k

\* _TOKEN_PATTERN.sub(_repl, body): the scan from item i on; a string literal
\* is kept, a match of \b\d+\b is replaced
RECURSIVE TokenSub(_, _)
TokenSub(t, i) ==
    IF i > Len(t) THEN [out |-> <<>>, replaced |-> {}]
    ELSE IF t[i] = Char("\"") /\ ClosingQuote(t, i) # 0
    THEN LET j == ClosingQuote(t, i)
             rest == TokenSub(t, j + 1)
         IN  [out |-> SubSeq(t, i, j) \o rest.out, replaced |-> rest.replaced]
    ELSE IF /\ IsDigitItem(t[i])
            /\ (i = 1 \/ ~IsWordItem(t[i - 1]))
            /\ (DigitRunEnd(t, i) = Len(t) \/ ~IsWordItem(t[DigitRunEnd(t, i) + 1]))
    THEN LET j == DigitRunEnd(t, i)
             rest == TokenSub(t, j + 1)
         IN  [out |-> <<Disguise(j - i + 1)>> \o rest.out,
              replaced |-> {[start |-> i, end |-> j]} \cup rest.replaced]
    ELSE LET rest == TokenSub(t, i + 1)
         IN  [out |-> <<t[i]>> \o rest.out, replaced |-> rest.replaced]

\* _restore_placeholders
RestorePlaceholders(out, placeholders) ==
    [i \in 1..Len(out) |->
        IF out[i].kind = "placeholder"
        THEN (CHOOSE p \in placeholders : Placeholder(p[1]) = out[i])[2]
        ELSE out[i]]

\* lines 82-102
ObfuscateIntegersPreservePragma ==
    /\ integer_expr.pc = "called"
    /\ LET e == ExtractPlaceholders(integer_expr.source)
           r == TokenSub(e.body, 1)
       IN  integer_expr' = [integer_expr EXCEPT
                               !.pc = "returned",
                               !.body = e.body,
                               !.placeholders = e.placeholders,
                               !.replaced = r.replaced,
                               !.final = RestorePlaceholders(r.out, e.placeholders)]
    /\ UNCHANGED <<flatVars, cpmVars, editVars, astVars, demoVars>>
    /\ UNCHANGED OtherThanIntegerExpr

NextIntegerPass == ObfuscateIntegersPreservePragma

InitIntegerPass ==
    /\ \E s \in IntSources(MaxSrcLen) :
          integer_expr = [pc |-> "called", source |-> s, body |-> <<>>,
                          placeholders |-> {}, replaced |-> {}, final |-> <<>>]
    /\ statements = <<>> /\ arg = 0 /\ FlatIdle /\ CpmIdle /\ EditIdle /\ AstIdle
    /\ DemoIdle /\ IntegerExprAlone

SpecIntegerPass == InitIntegerPass /\ [][NextIntegerPass]_vars

Directives(t) == SelectSeq(t, LAMBDA x : x.kind \in {"spdx", "pragma"})

NextToDecimalPoint(s, r) ==
    \/ r.start > 1 /\ s[r.start - 1] = Char(".")
    \/ r.end < Len(s) /\ s[r.end + 1] = Char(".")

\* C27: no digit run next to a decimal point is replaced by a disguise
\* expression, and the pragma and SPDX lines of the source come out as they
\* went in.
C27_DecimalsSkippedDirectivesKept ==
    integer_expr.pc = "returned" =>
        /\ \A r \in integer_expr.replaced : ~NextToDecimalPoint(integer_expr.source, r)
        /\ Directives(integer_expr.final) = Directives(integer_expr.source)
        /\ \A i \in 1..Len(integer_expr.final) : integer_expr.final[i].kind # "placeholder"

-----------------------------------------------------------------------------
(***************************************************************************)
(* PreprocessingObfuscator.inline_modifiers on one function                *)
(*                                                                         *)
(* preprocessing is [pc, has_body, modifiers, inlined, removed]: whether   *)
(* the function has a body, its modifier invocations in signature order,   *)
(* the invocations whose modifier body was wrapped around the function     *)
(* body (innermost first) and the invocations cut out of the signature.    *)
(***************************************************************************)
MaxModifiers == 3      \* modifier invocations of the function

\* an invocation: is its definition in modifiers_db, has the definition a
\* body, is `_;` one of the top-level statements of that body
ModifierInvocations ==
    { [local |-> FALSE, body |-> FALSE, placeholder |-> FALSE],
      [local |-> TRUE, body |-> FALSE, placeholder |-> FALSE],
      [local |-> TRUE, body |-> TRUE, placeholder |-> FALSE],
      [local |-> TRUE, body |-> TRUE, placeholder |-> TRUE] }

\* _find_placeholder
FindPlaceholder(inv) == inv.placeholder

\* lines 139-197: the loop over reversed(modifiers), from invocation k down
RECURSIVE WrapModifiers(_, _, _)
WrapModifiers(mods, k, acc) ==
    IF k = 0 THEN acc
    ELSE IF ~mods[k].local THEN WrapModifiers(mods, k - 1, acc)
    ELSE LET listed == [acc EXCEPT !.removed = @ \cup {k}]
         IN  IF ~mods[k].body THEN WrapModifiers(mods, k - 1, listed)
             ELSE IF ~FindPlaceholder(mods[k]) THEN WrapModifiers(mods, k - 1, listed)
             ELSE WrapModifiers(mods, k - 1, [listed EXCEPT !.inlined = Append(@, k)])

\* lines 115-216 for one function of functions_to_process
InlineModifiers ==
    /\ preprocessing.pc = "called"
    /\ IF ~preprocessing.has_body
       THEN preprocessing' = [preprocessing EXCEPT !.pc = "done"]
       ELSE LET r == WrapModifiers(preprocessing.modifiers, Len(preprocessing.modifiers),
                                   [inlined |-> <<>>, removed |-> {}])
            IN  preprocessing' = [preprocessing EXCEPT !.pc = "done",
                                                       !.inlined = r.inlined,
                                                       !.removed = r.removed]
    /\ UNCHANGED <<flatVars, cpmVars, editVars, astVars, demoVars>>
    /\ UNCHANGED OtherThanPreprocessing

NextInlineModifiers == InlineModifiers

\* _collect_functions_with_modifiers: a function with at least one invocation
InitInlineModifiers ==
    /\ \E n \in 1..MaxModifiers, b \in BOOLEAN :
          \E ms \in [1..n -> ModifierInvocations] :
             preprocessing = [pc |-> "called", has_body |-> b, modifiers |-> ms,
                              inlined |-> <<>>, removed |-> {}]
    /\ statements = <<>> /\ arg = 0 /\ FlatIdle /\ CpmIdle /\ EditIdle /\ AstIdle
    /\ DemoIdle /\ PreprocessingAlone

SpecInlineModifiers == InitInlineModifiers /\ [][NextInlineModifiers]_vars

\* C28: a modifier invocation is cut out of the signature only if the body
\* of its modifier was inlined; a local modifier that is skipped (no body,
\* or no `_;` among its top-level statements) keeps its invocation.
C28_RemovedOnlyIfInlined ==
    preprocessing.pc = "done" =>
        \A k \in preprocessing.removed :
           \E j \in 1..Len(preprocessing.inlined) : preprocessing.inlined[j] = k

-----------------------------------------------------------------------------
(***************************************************************************)
(* local_state_obfuscator.convert_locals_to_state on one function body     *)
(*                                                                         *)
(* local_state is [pc, read_only, stmts, out, count].  The statement at    *)
(* position i is the declaration of local i (with or without initial       *)
(* value) or an expression statement; `ref` is the local its initial value *)
(* or expression names (0: none).  In the output a name is                 *)
(* [space, k]: the local k or the state variable made for local k.         *)
(***************************************************************************)
MaxLocals == 3         \* statements of the function body

LocalStmts(i, declared) ==
    { [kind |-> "decl", initial |-> TRUE, ref |-> r] : r \in {0} \cup declared }
    \cup { [kind |-> "decl", initial |-> FALSE, ref |-> 0] }
    \cup { [kind |-> "use", initial |-> FALSE, ref |-> r] : r \in declared }

DeclaredIn(s) == { k \in 1..Len(s) : s[k].kind = "decl" }

RECURSIVE LocalBodiesOfLen(_)
LocalBodiesOfLen(n) ==
    IF n = 0 THEN { <<>> }
    ELSE UNION { { Append(s, x) : x \in LocalStmts(n, DeclaredIn(s)) } :
                 s \in LocalBodiesOfLen(n - 1) }

LocalBodies(longest) == UNION { LocalBodiesOfLen(n) : n \in 0..longest }

\* _traverse, lines 175-217: the declarations put into local_infos
LocalInfos(stmts, read_only) ==
    { k \in 1..Len(stmts) : ~read_only /\ stmts[k].kind = "decl" /\ stmts[k].initial }

LocalName(k) == [space |-> "local", k |-> k]
GlobalName(k) == [space |-> "state", k |-> k]
NoName == [space |-> "none", k |-> 0]

\* _collect_identifier_occurrences, lines 231-243: the identifier of
\* statement i is an occurrence unless it lies inside the declaration
\* statement of a promoted local
IsOccurrence(stmts, i, local_infos) ==
    /\ stmts[i].ref \in local_infos
    /\ i \notin local_infos

\* lines 284-317: a promoted declaration becomes `global = init_expr;` with
\* init_expr the bytes of the initial value; an occurrence becomes the global
\* name; everything else is left as it is
RewriteStatement(stmts, i, local_infos) ==
    LET s == stmts[i]
        name == IF s.ref = 0 THEN NoName
                ELSE IF IsOccurrence(stmts, i, local_infos) THEN GlobalName(s.ref)
                ELSE LocalName(s.ref)
    IN  IF i \in local_infos
        THEN [kind |-> "assign", target |-> GlobalName(i), name |-> name]
        ELSE [kind |-> s.kind, target |-> IF s.kind = "decl" THEN LocalName(i) ELSE NoName,
              name |-> name]

\* lines 252-319
PromoteLocalsOfBody ==
    /\ local_state.pc = "called"
    /\ LET local_infos == LocalInfos(local_state.stmts, local_state.read_only)
       IN  local_state' =
              [local_state EXCEPT
                  !.pc = "returned",
                  !.out = [i \in 1..Len(local_state.stmts) |->
                              RewriteStatement(local_state.stmts, i, local_infos)],
                  !.count = Cardinality(local_infos)]
    /\ UNCHANGED <<flatVars, cpmVars, editVars, astVars, demoVars>>
    /\ UNCHANGED OtherThanLocalState

NextLocalState == PromoteLocalsOfBody

InitLocalState ==
    /\ \E b \in LocalBodies(MaxLocals), ro \in BOOLEAN :
          local_state = [pc |-> "called", read_only |-> ro, stmts |-> b, out |-> <<>>,
                         count |-> 0]
    /\ statements = <<>> /\ arg = 0 /\ FlatIdle /\ CpmIdle /\ EditIdle /\ AstIdle
    /\ DemoIdle /\ LocalStateAlone

SpecLocalState == InitLocalState /\ [][NextLocalState]_vars

\* the declaration of local k is gone from the output
DeclarationRemoved(k) == local_state.out[k].kind = "assign"

\* C29: after the conversion every identifier that names a promoted local
\* is the state variable's name, also inside the initial value of another
\* promoted local's declaration.
C29_PromotedReferencesRenamed ==
    local_state.pc = "returned" =>
        \A i \in 1..Len(local_state.out) :
           LET n == local_state.out[i].name
           IN  (n.space # "none" /\ DeclarationRemoved(n.k)) => n = GlobalName(n.k)

-----------------------------------------------------------------------------
(***************************************************************************)
(* The insertion offset of contract-level declarations:                    *)
(* local_state_obfuscator._gather_contract_info and                        *)
(* scalar_splitter._collect_contract_infos                                 *)
(*                                                                         *)
(* The source is a sequence of bytes, offsets count from 0.  local_state   *)
(* is [pc, pass, source_bytes, start, end, insert_pos]: the pass that      *)
(* asks, the bytes, the src range of the ContractDefinition node and the   *)
(* offset computed for it (-1: none).                                      *)
(***************************************************************************)
AfterBrace == {"newline", "crlf", "same_line"}
ContractMembers == {"none", "var", "function", "function_nl"}
Trailers == {"end", "newline", "contract"}
Leaders == {"none", "pragma"}

\* the text of the contract: `c{`, what follows the opening brace, the
\* member, and the closing brace on the member's line or on its own
ContractText(after, member, own_line) ==
    <<"c", "{">>
    \o (CASE after = "newline" -> <<"\n">>
          [] after = "crlf" -> <<"\r", "\n">>
          [] OTHER -> <<>>)
    \o (CASE member = "var" -> <<"x">>
          [] member = "function" -> <<"f", "{", "}">>
          [] member = "function_nl" -> <<"f", "{", "\n", "}">>
          [] OTHER -> <<>>)
    \o (IF own_line THEN <<"\n">> ELSE <<>>)
    \o <<"}">>

LeaderText(l) == IF l = "pragma" THEN <<"p", "\n">> ELSE <<>>

TrailerText(t) ==
    CASE t = "newline" -> <<"\n">>
      [] t = "contract" -> <<"\n", "c", "{", "\n", "}">>
      [] OTHER -> <<>>

ByteAt(b, i) == b[i + 1]

\* bytes.find(ch, from) within b[0:upto]; -1 when absent
FindByte(b, ch, from, upto) ==
    LET hits == { i \in from..(upto - 1) : ByteAt(b, i) = ch }
    IN  IF hits = {} THEN -1 ELSE CHOOSE i \in hits : \A j \in hits : i <= j

\* b[i:i+n] == w
BytesAre(b, i, w) ==
    i + Len(w) <= Len(b) /\ \A k \in 1..Len(w) : ByteAt(b, i + k - 1) = w[k]

\* local_state_obfuscator._gather_contract_info, lines 112-127
GatherInsertPos(b, start, end) ==
    LET brace == FindByte(b, "{", start, end)
        insert_pos == brace + 1
        newline_idx == FindByte(b, "\n", insert_pos, Len(b))
    IN  IF brace = -1 THEN -1
        ELSE IF BytesAre(b, insert_pos, <<"\r", "\n">>) THEN insert_pos + 2
        ELSE IF BytesAre(b, insert_pos, <<"\n">>) THEN insert_pos + 1
        ELSE IF newline_idx # -1 THEN newline_idx + 1
        ELSE brace + 1

\* scalar_splitter._collect_contract_infos, lines 69-81
CollectInsertPos(b, start, end) ==
    LET brace == FindByte(b, "{", start, end)
        insert_pos == brace + 1
        newline_idx == FindByte(b, "\n", insert_pos, Len(b))
    IN  IF brace = -1 THEN -1
        ELSE IF BytesAre(b, insert_pos, <<"\r", "\n">>) THEN insert_pos + 2
        ELSE IF BytesAre(b, insert_pos, <<"\n">>) THEN insert_pos + 1
        ELSE IF newline_idx # -1 THEN newline_idx + 1 ELSE insert_pos

GatherContractInfo ==
    /\ local_state.pc = "called" /\ local_state.pass = "local_state"
    /\ local_state' = [local_state EXCEPT
                          !.pc = "gathered",
                          !.insert_pos = GatherInsertPos(local_state.source_bytes,
                                                         local_state.start, local_state.end)]
    /\ UNCHANGED <<flatVars, cpmVars, editVars, astVars, demoVars>>
    /\ UNCHANGED OtherThanLocalState

CollectContractInfos ==
    /\ local_state.pc = "called" /\ local_state.pass = "scalar_splitter"
    /\ local_state' = [local_state EXCEPT
                          !.pc = "gathered",
                          !.insert_pos = CollectInsertPos(local_state.source_bytes,
                                                          local_state.start, local_state.end)]
    /\ UNCHANGED <<flatVars, cpmVars, editVars, astVars, demoVars>>
    /\ UNCHANGED OtherThanLocalState

NextInsertPos == GatherContractInfo \/ CollectContractInfos

InitInsertPos ==
    /\ \E l \in Leaders, a \in AfterBrace, m \in ContractMembers, own \in BOOLEAN,
          t \in Trailers, p \in {"local_state", "scalar_splitter"} :
          local_state = [pc |-> "called", pass |-> p,
                         source_bytes |-> LeaderText(l) \o ContractText(a, m, own)
                                                        \o TrailerText(t),
                         start |-> Len(LeaderText(l)),
                         end |-> Len(LeaderText(l)) + Len(ContractText(a, m, own)),
                         insert_pos |-> -1]
    /\ statements = <<>> /\ arg = 0 /\ FlatIdle /\ CpmIdle /\ EditIdle /\ AstIdle
    /\ DemoIdle /\ LocalStateAlone

SpecInsertPos == InitInsertPos /\ [][NextInsertPos]_vars

\* open braces minus closing braces in b[from:upto]
BraceDepth(b, from, upto) ==
    Cardinality({ i \in from..(upto - 1) : ByteAt(b, i) = "{" })
    - Cardinality({ i \in from..(upto - 1) : ByteAt(b, i) = "}" })

\* C30: the insertion offset lies inside the contract's byte range, at the
\* level of the contract body, directly after the contract's opening brace
\* or after the newline that immediately follows it, whatever the layout.
C30_InsertPosInsideContractBody ==
    local_state.pc = "gathered" =>
        LET b == local_state.source_bytes
            pos == local_state.insert_pos
            brace == FindByte(b, "{", local_state.start, local_state.end)
        IN  /\ local_state.start < pos /\ pos < local_state.end
            /\ BraceDepth(b, local_state.start, pos) = 1
            /\ \/ pos = brace + 1
               \/ pos = brace + 2 /\ ByteAt(b, brace + 1) = "\n"
               \/ pos = brace + 3 /\ BytesAre(b, brace + 1, <<"\r", "\n">>)

=============================================================================
